---- MODULE Spec2Model ----
(***************************************************************************)
(* Model of gaia-mcp-go's client core:                                     *)
(*   - pkg/httpclient (src/unnamed/part_014): Client.doRequest with its    *)
(*     retry loop, applyHeaders, shouldRetry, parseJSONResponse and the    *)
(*     typed wrapper As;                                                   *)
(*   - internal/api (src/unnamed/part_008): gaiaApi.UploadImages and the   *)
(*     chunked upload pipeline built on the client.                        *)
(***************************************************************************)
EXTENDS Integers, Sequences, FiniteSets, TLC

(***************************************************************************)
(* Bounds of the model.                                                    *)
(***************************************************************************)
\* Config.MaxRetries is drawn from -1 .. MaxCfgRetries
MaxCfgRetries == 1
\* length in bytes of a marshalled JSON payload
PayloadLen == 2

\* bytes of an image, at most
MaxImageLen == 4

\* shared.UPLOAD_CHUNK_SIZE, scaled down from its 10 MiB
ChunkSize == 2

\* upload URLs in an InitUploadResponse, at most
MaxUrls == 3
\* how many times a caller holding a raw response calls ParseJSONResponse
MaxDecodes == 2

(***************************************************************************)
(* Program constants.                                                      *)
(***************************************************************************)
DefaultMaxRetries == 3
DefaultRetryDelay == 1
CustomRetryDelay == 2

StatusTooManyRequests == 429
StatusInternalServerError == 500
StatusBadGateway == 502
StatusServiceUnavailable == 503
StatusGatewayTimeout == 504
StatusOK == 200
StatusCreated == 201
\* first status that parseJSONResponse treats as an error
ErrorStatusFloor == 400

Nil == [kind |-> "nil"]

(***************************************************************************)
(* Headers.  http.Header.Set canonicalises the key, so two keys of a Go    *)
(* map that differ in case only end in the same header.                    *)
(***************************************************************************)
CanonNames == {"Content-Type", "Content-Length", "Accept", "User-Agent",
               "Authorization", "X-Sig"}

Canon(k) == IF k = "content-type" THEN "Content-Type" ELSE k

NoHeaders == [c \in CanonNames |-> ""]

EmptyMap == [k \in {} |-> ""]

HeaderSet(h, k, v) == [h EXCEPT ![Canon(k)] = v]

\* every order in which `for key, value := range m` may visit the map m
Orders(m) ==
    LET n == Cardinality(DOMAIN m)
    IN  {o \in [1..n -> DOMAIN m] : \A i, j \in 1..n : i # j => o[i] # o[j]}

RECURSIVE SetInOrder(_, _, _)
SetInOrder(h, m, o) ==
    IF o = <<>> THEN h
    ELSE SetInOrder(HeaderSet(h, Head(o), m[Head(o)]), m, Tail(o))

\* the headers a range loop over m may leave
RangeSet(h, m) == {SetInOrder(h, m, o) : o \in Orders(m)}

StandardHeaders ==
    HeaderSet(HeaderSet(HeaderSet(NoHeaders,
        "Content-Type", "application/json"),
        "Accept", "application/json"),
        "User-Agent", "gaia-mcp-go/1.0")

\* an interceptor is a function with a state of its own: the one held here
\* returns an error on the calls made for attempt `from` and later
Fails(interceptor, n) == interceptor.fails /\ n >= interceptor.from

\* Step 4 of applyHeaders: the interceptors in registration order; the first
\* one that fails ends the loop with its error.
RECURSIVE RunInterceptors(_, _, _)
RunInterceptors(h, ints, n) ==
    IF ints = <<>> THEN [headers |-> h, err |-> Nil]
    ELSE IF Fails(Head(ints), n)
         THEN [headers |-> h,
               err |-> [kind |-> "interceptor", cause |-> Head(ints).val]]
         ELSE RunInterceptors(HeaderSet(h, Head(ints).key, Head(ints).val),
                              Tail(ints), n)

\* mutant: the custom headers first, the client defaults over them
applyHeaders_CustomFirst(c, customHeaders, n) ==
    { RunInterceptors(h2, c.headerInterceptors, n) :
        h2 \in UNION { RangeSet(h1, c.defaultHeaders) :
                         h1 \in RangeSet(StandardHeaders, customHeaders) } }

\* applyHeaders: standard -> client defaults -> custom -> interceptors
applyHeaders(c, customHeaders, n) ==
    { RunInterceptors(h2, c.headerInterceptors, n) :
        h2 \in UNION { RangeSet(h1, customHeaders) :
                         h1 \in RangeSet(StandardHeaders, c.defaultHeaders) } }

(***************************************************************************)
(* shouldRetry                                                             *)
(***************************************************************************)
\* mutant: every server error class, 429 forgotten
shouldRetry_ServerErrorsOnly(statusCode) == statusCode >= StatusInternalServerError

shouldRetry(statusCode) ==
    statusCode \in {StatusTooManyRequests, StatusInternalServerError,
                    StatusBadGateway, StatusServiceUnavailable,
                    StatusGatewayTimeout}

(***************************************************************************)
(* New: the defaults of a Config                                           *)
(***************************************************************************)
New(config) ==
    [maxRetries |-> IF config.MaxRetries = 0 THEN DefaultMaxRetries
                    ELSE config.MaxRetries,
     retryDelay |-> IF config.RetryDelay = 0 THEN DefaultRetryDelay
                    ELSE config.RetryDelay,
     defaultHeaders |-> config.DefaultHeaders,
     headerInterceptors |-> <<>>]

AddHeaderInterceptor(c, interceptor) ==
    [c EXCEPT !.headerInterceptors = Append(@, interceptor)]

RECURSIVE AddInterceptors(_, _)
AddInterceptors(c, ints) ==
    IF ints = <<>> THEN c
    ELSE AddInterceptors(AddHeaderInterceptor(c, Head(ints)), Tail(ints))

(***************************************************************************)
(* Errors.  fmt.Errorf("...: %w", err) makes a new error that wraps err.   *)
(***************************************************************************)
NetErr(what, n) == [kind |-> what, attempt |-> n]

Wrap(msg, e) == [kind |-> "wrapped", msg |-> msg, cause |-> e]

RECURSIVE Cause(_)
\* the innermost error of a chain of wrappers (errors.Unwrap, repeated)
Cause(e) == IF e.kind = "wrapped" THEN Cause(e.cause) ELSE e

APIError(statusCode, message) ==
    [kind |-> "APIError", StatusCode |-> statusCode, Message |-> message]

(***************************************************************************)
(* Response bodies.  raw is the text; jsonErr says whether json.Unmarshal   *)
(* into an APIError succeeds and, if so, Message and bodyStatus are the    *)
(* fields it fills; jsonT says whether json.Unmarshal into the caller's    *)
(* target succeeds.  noBody marks http.NoBody (Content-Length: 0), which   *)
(* reads as empty even after Close; any other body fails a Read after      *)
(* Close.                                                                  *)
(***************************************************************************)
BodyOk ==
    [raw |-> "{\"id\":\"s1\"}", noBody |-> FALSE, jsonErr |-> TRUE,
     Message |-> "", bodyStatus |-> 0, jsonT |-> TRUE]
BodyApiError ==
    [raw |-> "{\"status_code\":418,\"message\":\"bad\"}", noBody |-> FALSE,
     jsonErr |-> TRUE, Message |-> "bad", bodyStatus |-> 418, jsonT |-> TRUE]
BodyErrorNoMessage ==
    [raw |-> "{\"error\":\"Invalid image URL\"}", noBody |-> FALSE,
     jsonErr |-> TRUE, Message |-> "", bodyStatus |-> 0, jsonT |-> TRUE]
BodyText ==
    [raw |-> "Service Unavailable", noBody |-> FALSE, jsonErr |-> FALSE,
     Message |-> "", bodyStatus |-> 0, jsonT |-> FALSE]
BodyEmpty ==
    [raw |-> "", noBody |-> TRUE, jsonErr |-> FALSE,
     Message |-> "", bodyStatus |-> 0, jsonT |-> FALSE]

Bodies == {BodyOk, BodyApiError, BodyErrorNoMessage, BodyText, BodyEmpty}

\* mutant: a body that could be read again after Close
ReadAll_Rereadable(resp, closed, breaks) ==
    IF breaks /\ ~resp.body.noBody
    THEN [data |-> "", err |-> [kind |-> "read failed"]]
    ELSE [data |-> resp.body.raw, err |-> Nil]

\* io.ReadAll(resp.Body): the text, or an error when the body was closed
\* before (and is not http.NoBody) or the connection breaks while reading
ReadAll(resp, closed, breaks) ==
    IF resp.body.noBody THEN [data |-> resp.body.raw, err |-> Nil]
    ELSE IF closed THEN [data |-> "", err |-> [kind |-> "read on closed body"]]
    ELSE IF breaks THEN [data |-> "", err |-> [kind |-> "read failed"]]
    ELSE [data |-> resp.body.raw, err |-> Nil]

\* mutant: the status_code of the body is kept
ErrorResponse_BodyStatus(resp, data) ==
    IF resp.body.jsonErr /\ resp.body.Message # ""
    THEN APIError(resp.body.bodyStatus, resp.body.Message)
    ELSE APIError(resp.StatusCode, data)

\* the branch `resp.StatusCode >= 400` of parseJSONResponse
ErrorResponse(resp, data) ==
    IF resp.body.jsonErr /\ resp.body.Message # ""
    THEN APIError(resp.StatusCode, resp.body.Message)
    ELSE APIError(resp.StatusCode, data)

\* mutant: a body that does not unmarshal is reported as an APIError
SuccessResponse_DecodeAsAPIError(resp, data) ==
    IF resp.body.jsonT
    THEN [err |-> Nil, value |-> data]
    ELSE [err |-> APIError(resp.StatusCode, data), value |-> ""]

\* the end of parseJSONResponse: json.Unmarshal(body, target)
SuccessResponse(resp, data) ==
    IF resp.body.jsonT
    THEN [err |-> Nil, value |-> data]
    ELSE [err |-> Wrap("failed to unmarshal response", [kind |-> "json"]),
          value |-> ""]

\* mutant: every status from 200 on is taken for an error
IsErrorStatus_FromOK(statusCode) == statusCode >= StatusOK

\* `resp.StatusCode >= 400`
IsErrorStatus(statusCode) == statusCode >= ErrorStatusFloor

\* parseJSONResponse(resp, target): the error it returns (Nil for none) and
\* the value left in target
parseJSONResponse(resp, closed, breaks) ==
    LET rd == ReadAll(resp, closed, breaks)
    IN  IF rd.err # Nil
        THEN [err |-> Wrap("failed to read response body", rd.err),
              value |-> ""]
        ELSE IF IsErrorStatus(resp.StatusCode)
        THEN [err |-> ErrorResponse(resp, rd.data), value |-> ""]
        ELSE SuccessResponse(resp, rd.data)

(***************************************************************************)
(* State.                                                                  *)
(***************************************************************************)
VARIABLES
    client,      \* the *Client: maxRetries, retryDelay, defaultHeaders, headerInterceptors
    call,        \* the arguments of the doRequest call in progress, or Nil
    rpc,         \* where doRequest and its caller stand
    attempt,     \* the loop variable of doRequest
    bodyOff,     \* bytes already read from the request body buffer
    sent,        \* the HTTP requests handed to client.Do by this call, in order
    last,        \* what client.Do answered to the latest of them
    same,        \* the answer common to all of them, "mixed" when they differ
    waits,       \* the time.Sleep durations of this call, in order
    lastErr,     \* doRequest's lastErr
    ret,         \* what doRequest returned: [resp, err]
    bodyOpen,    \* attempts whose response body is open
    bodyClosed,  \* whether the returned response's body was closed
    decodes,     \* the results of the parseJSONResponse calls on the returned response
    final        \* what the typed wrapper As returned: [value, err]

VARIABLES
    imageUrls,     \* the argument of UploadImages
    upc,           \* where UploadImages stands
    idx,           \* the image of imageUrls the loop is at (from 1)
    imageData,     \* len(imageData) of the image in hand
    session,       \* the InitUploadResponse of the image in hand, or Nil
    spawned,       \* chunk goroutines started by the dispatch loop
    task,          \* where each chunk goroutine stands
    uploadParts,   \* the slice uploadParts
    uploadErrs,    \* the slice uploadErrs
    wg,            \* the WaitGroup counter
    failedFiles,   \* the slice failedFiles
    uploadedFiles, \* the slice uploadedFiles
    uploadRet,     \* what UploadImages returned: [files, err]
    chunkEnds,     \* how chunk tasks ended: [image, failed, late]
    completeCalls, \* the calls of completeUpload: [image, parts]
    puts,          \* the PUT requests of the image in hand, by chunk
    finalized,     \* how completeUpload calls ended: [image, status]
    source,        \* the image in hand: what was fetched and what was declared
    ctx            \* the context.Context of the caller: live, or cancelled

VARIABLES
    img            \* a call into package imageutil: [pc, config, ret]

upVars == <<imageUrls, upc, idx, imageData, source, session, spawned, task, uploadParts,
            uploadErrs, wg, failedFiles, uploadedFiles, uploadRet, chunkEnds,
            completeCalls, puts, finalized>>

reqVars == <<call, rpc, attempt, bodyOff, sent, last, same, waits, lastErr, ret,
             bodyOpen, bodyClosed, decodes, final>>

vars == <<client, reqVars, upVars, ctx, img>>

(***************************************************************************)
(* The inputs the model draws from.                                        *)
(***************************************************************************)
CfgRetries == -1 .. MaxCfgRetries

CfgDelays == {0, CustomRetryDelay}

DefaultHeaderChoices ==
    { EmptyMap,
      [k \in {"Authorization", "Accept"} |->
          IF k = "Accept" THEN "text/plain" ELSE "Bearer key"] }

CustomHeaderChoices ==
    { EmptyMap,
      [k \in {"Content-Type", "Authorization"} |->
          IF k = "Authorization" THEN "Bearer call" ELSE "application/octet-stream"],
      [k \in {"Content-Type", "content-type"} |->
          IF k = "content-type" THEN "text/lower" ELSE "text/upper"] }

InterceptorChoices ==
    { <<>>,
      <<[key |-> "Authorization", val |-> "Basic dXNlcg==", fails |-> FALSE,
         from |-> 0]>>,
      <<[key |-> "X-Sig", val |-> "sig1", fails |-> FALSE, from |-> 0],
        [key |-> "X-Sig", val |-> "sig2", fails |-> FALSE, from |-> 0]>>,
      <<[key |-> "X-Sig", val |-> "sig1", fails |-> FALSE, from |-> 0],
        [key |-> "X-Sig", val |-> "no key", fails |-> TRUE, from |-> 0]>>,
      <<[key |-> "X-Sig", val |-> "sig1", fails |-> FALSE, from |-> 0],
        [key |-> "X-Sig", val |-> "key gone", fails |-> TRUE, from |-> 1]>> }

Payload == [i \in 1..PayloadLen |-> i]

\* what client.Do may answer: an error (no response), or a response status
ErrOutcomes == {"connection refused", "timeout"}

\* the error of client.Do when the context of the request is cancelled
Canceled == "context canceled"

Statuses == {StatusOK, StatusCreated, 400, StatusTooManyRequests,
             StatusInternalServerError, StatusBadGateway,
             StatusServiceUnavailable, StatusGatewayTimeout}

IsErr(o) == o \in ErrOutcomes \cup {Canceled}

NoOutcome == [err |-> "", status |-> 0]

ErrOutcome(o) == [err |-> o, status |-> 0]

StatusOutcome(s) == [err |-> "", status |-> s]

Mixed == [err |-> "mixed", status |-> 0]

NoRet == [resp |-> Nil, err |-> Nil]

NoFinal == [kind |-> "none"]

InitReq ==
    /\ rpc = "idle"
    /\ attempt = 0
    /\ bodyOff = 0
    /\ sent = <<>>
    /\ last = NoOutcome
    /\ same = NoOutcome
    /\ waits = <<>>
    /\ lastErr = Nil
    /\ ret = NoRet
    /\ bodyOpen = {}
    /\ bodyClosed = FALSE
    /\ decodes = <<>>
    /\ final = NoFinal

Args(method, endpoint, payload, headers, typed) ==
    [method |-> method, endpoint |-> endpoint, payload |-> payload,
     headers |-> headers, typed |-> typed]

\* NewGaiaApi: the bearer key is the one default header
BearerHeaders == [k \in {"Authorization"} |-> "Bearer key"]

\* clients that differ in their retry settings, and the calls made on them
RetryClients ==
    { New([MaxRetries |-> r, RetryDelay |-> d, DefaultHeaders |-> BearerHeaders]) :
        r \in CfgRetries, d \in CfgDelays }

PlainCalls ==
    { Args(IF hasPayload THEN "POST" ELSE "GET", "/api/sd-styles",
           IF hasPayload THEN Payload ELSE Nil, EmptyMap, typed) :
        hasPayload \in BOOLEAN, typed \in BOOLEAN }

\* clients that differ in their headers, and the calls made on them
HeaderClients ==
    { AddInterceptors(New([MaxRetries |-> 1, RetryDelay |-> 0,
                           DefaultHeaders |-> dh]), ints) :
        dh \in DefaultHeaderChoices, ints \in InterceptorChoices }

HeaderCalls ==
    { Args("POST", "/api/sd-styles", Payload, h, TRUE) : h \in CustomHeaderChoices }

\* the caller's context before it is cancelled
Live == [done |-> FALSE]

\* no image is in hand
NoSource == [buffer |-> Nil, dims |-> Nil, init |-> Nil]

\* package imageutil is not in use
NoProcessor == [pc |-> "none"]

\* UploadImages not called
InitUp ==
    /\ ctx = Live
    /\ upc = "idle"
    /\ idx = 0
    /\ imageData = 0
    /\ source = NoSource
    /\ session = Nil
    /\ spawned = 0
    /\ task = <<>>
    /\ uploadParts = <<>>
    /\ uploadErrs = <<>>
    /\ wg = 0
    /\ failedFiles = <<>>
    /\ uploadedFiles = <<>>
    /\ uploadRet = NoRet
    /\ chunkEnds = {}
    /\ completeCalls = <<>>
    /\ finalized = {}
    /\ puts = <<>>

Init ==
    /\ \/ client \in RetryClients /\ call \in PlainCalls
       \/ client \in HeaderClients /\ call \in HeaderCalls
    /\ InitReq
    /\ imageUrls = <<>>
    /\ InitUp
    /\ img = NoProcessor

(***************************************************************************)
(* doRequest                                                               *)
(***************************************************************************)
\* the bytes left in the bytes.Buffer that doRequest made from the payload:
\* http.NewRequestWithContext takes them as the body of the attempt
BodyLeft == IF call.payload = Nil THEN <<>>
            ELSE SubSeq(call.payload, bodyOff + 1, Len(call.payload))

\* the head of doRequest: marshal the payload, enter the loop
StartRequest(method, endpoint, payload, headers, typed) ==
    /\ rpc = "idle"
    /\ call' = Args(method, endpoint, payload, headers, typed)
    /\ rpc' = "loop"
    /\ attempt' = 0
    /\ bodyOff' = 0
    /\ lastErr' = Nil
    /\ UNCHANGED <<sent, last, same, waits, ret, bodyOpen, bodyClosed, decodes, final>>

\* mutant: the headers of the request are kept in the default headers of
\* the Client
ClientAfter_KeepsCustom(c, customHeaders) ==
    [c EXCEPT !.defaultHeaders =
        [k \in DOMAIN customHeaders \cup DOMAIN @ |->
            IF k \in DOMAIN customHeaders THEN customHeaders[k] ELSE @[k]]]

\* the Client after an attempt was prepared: doRequest and applyHeaders
\* read the fields of c and assign none
ClientAfter(c, customHeaders) == c

\* mutant: the error of applyHeaders is ignored and the request is sent
HeadersFailed_Ignored(err) == FALSE

\* `if err := c.applyHeaders(req, headers); err != nil`
HeadersFailed(err) == err # Nil

\* the loop condition, http.NewRequestWithContext, applyHeaders, client.Do
BeginAttempt ==
    /\ rpc = "loop"
    /\ client' = ClientAfter(client, call.headers)
    /\ IF attempt > client.maxRetries
       THEN /\ ret' = [resp |-> Nil, err |-> lastErr]
            /\ rpc' = "returned"
            /\ UNCHANGED sent
       ELSE \E r \in applyHeaders(client, call.headers, attempt) :
              IF HeadersFailed(r.err)
              THEN /\ ret' = [resp |-> Nil,
                              err |-> Wrap("failed to apply headers",
                                        Wrap("header interceptor failed", r.err))]
                   /\ rpc' = "returned"
                   /\ UNCHANGED sent
              ELSE /\ sent' = Append(sent, [method |-> call.method,
                                            endpoint |-> call.endpoint,
                                            body |-> BodyLeft,
                                            headers |-> r.headers])
                   /\ rpc' = "inflight"
                   /\ UNCHANGED ret
    /\ UNCHANGED <<ctx, img, call, attempt, bodyOff, last, same, waits, lastErr,
                   bodyOpen, bodyClosed, decodes, final, upVars>>

\* mutant: one retry too many
AttemptsRemain_OffByOne(c, n) == n <= c.maxRetries

\* `attempt < c.maxRetries`: another iteration of the loop may follow
AttemptsRemain(c, n) == n < c.maxRetries

\* mutant: the failure of the last attempt is dropped
ExhaustedError_Swallowed(c, err) == Nil

\* the error doRequest returns when the last attempt failed in client.Do
ExhaustedError(c, err) == Wrap("request failed after attempts", err)

\* what client.Do answered, noted for the properties
Record(o) ==
    /\ last' = o
    /\ same' = IF same \in {NoOutcome, o} THEN o ELSE Mixed

\* mutant: the wait is counted from the index of the attempt, which starts
\* at zero
SleepAndContinue_ZeroBased ==
    /\ waits' = Append(waits, client.retryDelay * attempt)
    /\ attempt' = attempt + 1
    /\ rpc' = "loop"

\* time.Sleep(c.retryDelay * time.Duration(attempt+1)); continue
SleepAndContinue ==
    /\ waits' = Append(waits, client.retryDelay * (attempt + 1))
    /\ attempt' = attempt + 1
    /\ rpc' = "loop"

\* client.Do returned an error: the transport had read `used` bytes of the
\* body by then (none when the connection was refused)
DoFailed(o, used) ==
    /\ rpc = "inflight"
    /\ IsErr(o)
    /\ used \in 0 .. Len(BodyLeft)
    /\ o = "connection refused" => used = 0
    /\ ctx.done <=> o = Canceled
    /\ bodyOff' = bodyOff + used
    /\ Record(ErrOutcome(o))
    /\ lastErr' = NetErr(o, attempt + 1)
    /\ IF AttemptsRemain(client, attempt)
       THEN SleepAndContinue /\ UNCHANGED ret
       ELSE /\ ret' = [resp |-> Nil,
                       err |-> ExhaustedError(client, NetErr(o, attempt + 1))]
            /\ rpc' = "returned"
            /\ UNCHANGED <<waits, attempt>>
    /\ UNCHANGED <<client, ctx, img, call, sent, bodyOpen, bodyClosed, decodes, final, upVars>>

\* mutant: the response of a retried attempt is dropped with its body open
CloseBody_Leak(open, n) == open

\* resp.Body.Close() on the response of attempt n
CloseBody(open, n) == open \ {n}

\* client.Do returned a response: the request, body included, was written
DoResponded(status, body) ==
    /\ rpc = "inflight"
    /\ status \in Statuses
    /\ ~ctx.done
    /\ bodyOff' = bodyOff + Len(BodyLeft)
    /\ Record(StatusOutcome(status))
    /\ IF shouldRetry(status) /\ AttemptsRemain(client, attempt)
       THEN /\ body = BodyEmpty      \* closed unread: its content plays no part
            /\ bodyOpen' = CloseBody(bodyOpen \cup {attempt + 1}, attempt + 1)
            /\ SleepAndContinue
            /\ UNCHANGED ret
       ELSE /\ ret' = [resp |-> [StatusCode |-> status, body |-> body,
                                 attempt |-> attempt + 1],
                       err |-> Nil]
            /\ bodyOpen' = bodyOpen \cup {attempt + 1}
            /\ rpc' = "returned"
            /\ UNCHANGED <<waits, attempt>>
    /\ UNCHANGED <<client, ctx, img, call, sent, lastErr, bodyClosed, decodes, final, upVars>>

(***************************************************************************)
(* The callers of doRequest.                                               *)
(***************************************************************************)
\* c.GET / c.POST / c.PUT / c.DELETE: the raw response goes to the caller
\* PostJSON(...) + As: doRequest, then parseJSONResponse
Request ==
    /\ StartRequest(call.method, call.endpoint, call.payload, call.headers,
                    call.typed)
    /\ UNCHANGED <<client, ctx, img, upVars>>

\* As, after doRequest returned: the error as it is, or the decoded body.
\* A nil response with a nil error is dereferenced by parseJSONResponse.
AsReturn ==
    /\ rpc = "returned"
    /\ call.typed
    /\ IF ret.err # Nil
       THEN /\ final' = [kind |-> "returned", value |-> "", err |-> ret.err]
            /\ rpc' = "done"
            /\ UNCHANGED <<bodyOpen, bodyClosed, decodes>>
       ELSE IF ret.resp = Nil
       THEN /\ rpc' = "panic"
            /\ UNCHANGED <<final, bodyOpen, bodyClosed, decodes>>
       ELSE \E breaks \in BOOLEAN :
              LET r == parseJSONResponse(ret.resp, bodyClosed, breaks)
              IN  /\ final' = [kind |-> "returned", value |-> r.value, err |-> r.err]
                  /\ decodes' = Append(decodes, r)
                  /\ bodyClosed' = TRUE
                  /\ bodyOpen' = bodyOpen \ {ret.resp.attempt}
                  /\ rpc' = "done"
    /\ UNCHANGED <<client, ctx, img, call, attempt, bodyOff, sent, last, same, waits, lastErr,
                   ret, upVars>>

\* a caller that holds the raw response calls ParseJSONResponse on it
ParseJSONResponse ==
    /\ rpc = "returned"
    /\ ~call.typed
    /\ ret.resp # Nil
    /\ Len(decodes) < MaxDecodes
    /\ \E breaks \in BOOLEAN :
         /\ decodes' = Append(decodes,
                              parseJSONResponse(ret.resp, bodyClosed, breaks))
         /\ bodyClosed' = TRUE
         /\ bodyOpen' = bodyOpen \ {ret.resp.attempt}
    /\ UNCHANGED <<client, ctx, img, call, rpc, attempt, bodyOff, sent, last, same, waits,
                   lastErr, ret, final, upVars>>

Next ==
    \/ Request
    \/ BeginAttempt
    \/ \E o \in ErrOutcomes, used \in 0..PayloadLen : DoFailed(o, used)
    \/ \E s \in Statuses, b \in Bodies : DoResponded(s, b)
    \/ AsReturn
    \/ ParseJSONResponse

Spec == Init /\ [][Next]_vars

(***************************************************************************)
(* Package imageutil: the image is fetched, scaled down to the bounds of   *)
(* the configuration and encoded.  An image is held as its width, its      *)
(* height and the format it was decoded from.                              *)
(***************************************************************************)
\* the largest width and height of a fetched image
MaxSide == 5

\* the largest MaxWidth and MaxHeight of a ProcessorConfig
MaxBound == 3

\* the formats image.Decode knows here: image/jpeg and image/png are the
\* only decoders the package imports
Decodable == {"jpeg", "png"}

Images == [w : 1..MaxSide, h : 1..MaxSide]

\* what the body of a response holds: bytes that break off while they are
\* read, bytes that are no image, or an image in one of the formats
BodyUnreadable == [kind |-> "unreadable"]

BodyGarbage == [kind |-> "garbage"]

ImageBodies == {[kind |-> "image", format |-> f, image |-> i] :
                   f \in Decodable, i \in Images}

FetchStatuses == {StatusOK, 204, 404, 500}

\* how the GET of an image URL ends: the URL makes no request, client.Do
\* fails, or a response comes back
FetchBadUrl == [kind |-> "bad url"]

FetchFailed == [kind |-> "do failed"]

FetchOutcomes ==
    {FetchBadUrl, FetchFailed} \cup
    {[kind |-> "response", status |-> s, body |-> b] :
        s \in FetchStatuses, b \in {BodyUnreadable, BodyGarbage} \cup ImageBodies}

ProcessorConfigs == [MaxWidth : 1..MaxBound, MaxHeight : 1..MaxBound]

\* mutant: only the statuses of a failing server are turned into an error
downloadImage_ServerErrorsOnly(outcome) ==
    CASE outcome.kind = "bad url" ->
           [image |-> Nil, format |-> "",
            err |-> Wrap("creating request", NetErr("bad url", 0))]
      [] outcome.kind = "do failed" ->
           [image |-> Nil, format |-> "",
            err |-> Wrap("downloading image", NetErr("do failed", 0))]
      [] outcome.status >= 500 ->
           [image |-> Nil, format |-> "",
            err |-> [kind |-> "error", msg |-> "unexpected status code",
                     status |-> outcome.status]]
      [] outcome.body.kind = "unreadable" ->
           [image |-> Nil, format |-> "",
            err |-> Wrap("reading response body", NetErr("read failed", 0))]
      [] outcome.body.kind = "garbage" ->
           [image |-> Nil, format |-> "",
            err |-> Wrap("decoding image", NetErr("unknown format", 0))]
      [] OTHER ->
           [image |-> outcome.body.image, format |-> outcome.body.format,
            err |-> Nil]

\* Processor.downloadImage: (image, format, error)
downloadImage(outcome) ==
    CASE outcome.kind = "bad url" ->
           [image |-> Nil, format |-> "",
            err |-> Wrap("creating request", NetErr("bad url", 0))]
      [] outcome.kind = "do failed" ->
           [image |-> Nil, format |-> "",
            err |-> Wrap("downloading image", NetErr("do failed", 0))]
      [] outcome.status # StatusOK ->
           [image |-> Nil, format |-> "",
            err |-> [kind |-> "error", msg |-> "unexpected status code",
                     status |-> outcome.status]]
      [] outcome.body.kind = "unreadable" ->
           [image |-> Nil, format |-> "",
            err |-> Wrap("reading response body", NetErr("read failed", 0))]
      [] outcome.body.kind = "garbage" ->
           [image |-> Nil, format |-> "",
            err |-> Wrap("decoding image", NetErr("unknown format", 0))]
      [] OTHER ->
           [image |-> outcome.body.image, format |-> outcome.body.format,
            err |-> Nil]

\* int(float64(n) * scale) for scale = float64(num) / float64(den): the
\* conversion to int cuts the fraction off.  For the sizes drawn here
\* float64 gives the product as the exact quotient does.
TruncScaled(n, num, den) == (n * num) \div den

\* Processor.resizeImage: the image itself when it is within the bounds,
\* else a new image scaled by the smaller of scaleX and scaleY
resizeImage(src, config) ==
    IF src.w <= config.MaxWidth /\ src.h <= config.MaxHeight
    THEN src
    ELSE LET \* scaleY < scaleX, with scaleX = MaxWidth / w, scaleY = MaxHeight / h
             byHeight == config.MaxHeight * src.w < config.MaxWidth * src.h
             num == IF byHeight THEN config.MaxHeight ELSE config.MaxWidth
             den == IF byHeight THEN src.h ELSE src.w
         IN  [w |-> TruncScaled(src.w, num, den),
              h |-> TruncScaled(src.h, num, den)]

\* Processor.encodeImageToBase64Pure: (base64Data, mimeType, error); the
\* text is held as the sequence of what it encodes, the empty string is
\* the empty sequence.  png.Encode takes no image without pixels.
encodeImageToBase64Pure(image, format) ==
    LET mimeType == IF format \in {"jpeg", "jpg"} THEN "image/jpeg"
                    ELSE "image/png"
    IN  IF mimeType = "image/png" /\ (image.w = 0 \/ image.h = 0)
        THEN [base64Data |-> <<>>, mimeType |-> "",
              err |-> Wrap("encoding PNG", NetErr("invalid image size", 0))]
        ELSE [base64Data |-> <<mimeType, image>>,
              mimeType |-> mimeType, err |-> Nil]

\* Processor.encodeImageToBase64: the same data behind a data URL prefix
encodeImageToBase64(image, format) ==
    LET pure == encodeImageToBase64Pure(image, format)
    IN  IF pure.err # Nil
        THEN [value |-> <<>>, err |-> pure.err]
        ELSE [value |-> <<"data:", pure.mimeType, ";base64,">> \o pure.base64Data,
              err |-> Nil]

\* Processor.ProcessImageFromURL: (string, error)
ProcessImageFromURL(config, outcome) ==
    LET got == downloadImage(outcome)
    IN  IF got.err # Nil
        THEN [value |-> <<>>, err |-> Wrap("downloading image", got.err)]
        ELSE LET enc == encodeImageToBase64(resizeImage(got.image, config),
                                            got.format)
             IN  IF enc.err # Nil
                 THEN [value |-> <<>>,
                       err |-> Wrap("encoding image to base64", enc.err)]
                 ELSE enc

\* Processor.ProcessImageFromURLForMCP: (base64Data, mimeType, error)
ProcessImageFromURLForMCP(config, outcome) ==
    LET got == downloadImage(outcome)
    IN  IF got.err # Nil
        THEN [base64Data |-> <<>>, mimeType |-> "",
              err |-> Wrap("downloading image", got.err)]
        ELSE LET enc == encodeImageToBase64Pure(resizeImage(got.image, config),
                                                got.format)
             IN  IF enc.err # Nil
                 THEN [base64Data |-> <<>>, mimeType |-> "",
                       err |-> Wrap("encoding image to base64", enc.err)]
                 ELSE enc

\* imageutil.GetImageDimensions: (width, height, error)
ImageDimensions(outcome) ==
    LET got == downloadImage(outcome)
    IN  IF got.err # Nil
        THEN [width |-> 0, height |-> 0,
              err |-> Wrap("downloading image", got.err)]
        ELSE [width |-> got.image.w, height |-> got.image.h, err |-> Nil]

(***************************************************************************)
(* gaiaApi.UploadImages: the multipart upload of a list of images.         *)
(***************************************************************************)
\* strings.HasPrefix on strings held as sequences of characters
HasPrefix(s, prefix) ==
    /\ Len(s) >= Len(prefix)
    /\ SubSeq(s, 1, Len(prefix)) = prefix

HttpPrefix == <<"h", "t", "t", "p">>

HttpsUrl == <<"h", "t", "t", "p", "s", ":", "/", "/", "a">>

HttpUrl == <<"h", "t", "t", "p", ":", "/", "/", "b">>

FtpUrl == <<"f", "t", "p", ":", "/", "/", "c">>

HttpxUrl == <<"h", "t", "t", "p", "x", ":", "/", "/", "d">>

\* the lists of image URLs UploadImages is called with
UrlLists == { <<>>, <<HttpsUrl>>, <<FtpUrl, HttpUrl>>, <<HttpsUrl, HttpUrl>>,
              <<HttpxUrl>> }

\* NewGaiaApi: the client gets the base URL and the Authorization header,
\* retry count and delay are left to their defaults
NewGaiaApi == New([MaxRetries |-> 0, RetryDelay |-> 0,
                   DefaultHeaders |-> BearerHeaders])

\* what the API and the storage answer during an upload
UpErrOutcomes == {"timeout"}

UpStatuses == {StatusOK, StatusCreated, 400, StatusServiceUnavailable}

UpBodies == {BodyOk, BodyEmpty}

\* the decoded []InitUploadResponse of /api/upload/initialize
InitUploadResponses ==
    {<<>>} \cup
    { <<[Key |-> "key", UploadId |-> "upload", File |-> "file",
         UploadUrls |-> [i \in 1..n |-> i]]>> : n \in 0..MaxUrls }

\* how a PUT of a chunk to its presigned URL ends
PutOutcomes == {"error", "rejected", "no etag", "ok"}

\* the PUT of a chunk ended by the cancellation of its context
PutCanceled == "canceled"

\* the request variables between two calls of doRequest
ReqIdle ==
    /\ call' = Nil
    /\ rpc' = "idle"
    /\ attempt' = 0
    /\ bodyOff' = 0
    /\ sent' = <<>>
    /\ last' = NoOutcome
    /\ same' = NoOutcome
    /\ waits' = <<>>
    /\ lastErr' = Nil
    /\ ret' = NoRet
    /\ bodyOpen' = {}
    /\ bodyClosed' = FALSE
    /\ decodes' = <<>>
    /\ final' = NoFinal

\* the variables of one iteration of the loop over imageUrls
NoImage ==
    /\ imageData' = 0
    /\ source' = NoSource
    /\ session' = Nil
    /\ spawned' = 0
    /\ task' = <<>>
    /\ uploadParts' = <<>>
    /\ uploadErrs' = <<>>
    /\ wg' = 0
    /\ puts' = <<>>

\* mutant: the image is given up without an entry in failedFiles
Fail_Silent(error) ==
    /\ UNCHANGED failedFiles
    /\ idx' = idx + 1
    /\ upc' = "image"
    /\ NoImage

\* mutant: the `continue` is missing after the check of the URL
Fail_NoContinue(error) ==
    /\ failedFiles' = Append(failedFiles, [image |-> idx, url |-> imageUrls[idx],
                                           error |-> error])
    /\ IF upc = "image"
       THEN idx' = idx /\ upc' = "process"
       ELSE idx' = idx + 1 /\ upc' = "image"
    /\ NoImage

\* failedFiles = append(failedFiles, {url, error}); continue
Fail(error) ==
    /\ failedFiles' = Append(failedFiles, [image |-> idx, url |-> imageUrls[idx],
                                           error |-> error])
    /\ idx' = idx + 1
    /\ upc' = "image"
    /\ NoImage

\* UploadImages is called
UploadImages ==
    /\ upc = "idle"
    /\ upc' = "image"
    /\ idx' = 1
    /\ UNCHANGED <<client, ctx, img, finalized, reqVars, imageUrls, imageData, source, session, spawned, task,
                   uploadParts, uploadErrs, wg, failedFiles, uploadedFiles,
                   uploadRet, chunkEnds, completeCalls, puts>>

\* mutant: a call that uploaded nothing is answered with an error
Result_NothingIsError(failed, uploaded) ==
    IF Len(failed) > 0 \/ Len(uploaded) = 0
    THEN [files |-> <<>>,
          err |-> [kind |-> "error", msg |-> "failed to upload some files",
                   failedFiles |-> failed]]
    ELSE [files |-> uploaded, err |-> Nil]

\* mutant: the files that were uploaded are returned beside the error
Result_PartialSuccess(failed, uploaded) ==
    [files |-> uploaded,
     err |-> IF Len(failed) > 0
             THEN [kind |-> "error", msg |-> "failed to upload some files",
                   failedFiles |-> failed]
             ELSE Nil]

\* what UploadImages returns after the loop: the aggregate error alone when
\* an image failed, else the uploaded files (a nil slice is the empty
\* sequence)
Result(failed, uploaded) ==
    IF Len(failed) > 0
    THEN [files |-> <<>>,
          err |-> [kind |-> "error", msg |-> "failed to upload some files",
                   failedFiles |-> failed]]
    ELSE [files |-> uploaded, err |-> Nil]

\* the head of the loop: the end of the list, or the check of the URL
LoopHead ==
    /\ upc = "image"
    /\ IF idx > Len(imageUrls)
       THEN /\ uploadRet' = Result(failedFiles, uploadedFiles)
            /\ upc' = "returned"
            /\ UNCHANGED <<idx, imageData, source, session, spawned, task, uploadParts,
                           uploadErrs, wg, failedFiles, puts>>
       ELSE IF ~HasPrefix(imageUrls[idx], HttpPrefix)
       THEN /\ Fail("URL must start with http:// or https://")
            /\ UNCHANGED uploadRet
       ELSE /\ upc' = "process"
            /\ UNCHANGED <<idx, imageData, source, session, spawned, task, uploadParts,
                           uploadErrs, wg, failedFiles, puts, uploadRet>>
    /\ UNCHANGED <<client, ctx, img, finalized, reqVars, imageUrls, uploadedFiles, chunkEnds,
                   completeCalls>>

\* the schemes the http.Client of the image processor can fetch: any other
\* scheme makes client.Do fail before a connection is opened
Fetchable(url) ==
    \/ HasPrefix(url, <<"h", "t", "t", "p", ":", "/", "/">>)
    \/ HasPrefix(url, <<"h", "t", "t", "p", "s", ":", "/", "/">>)

\* the bounds ProcessImageNoResizeForMCP and ProcessImageNoResize set
NoResizeBound == 100000

\* imageutil.ProcessImageNoResizeForMCP
ProcessImageNoResizeForMCP(outcome) ==
    ProcessImageFromURLForMCP([MaxWidth |-> NoResizeBound,
                               MaxHeight |-> NoResizeBound], outcome)

\* a GET of the image URL that is answered 200 with the body
FetchedOk(body) == [kind |-> "response", status |-> StatusOK, body |-> body]

\* the body the URL of every image holds when nothing changes it
PngBody == [kind |-> "image", format |-> "png", image |-> [w |-> 1, h |-> 1]]

\* base64.StdEncoding.DecodeString(base64Data): the bytes of imageData are
\* the image in the encoding that mimeType names
Buffer(processed) ==
    [image |-> processed.base64Data[2], mimeType |-> processed.mimeType]

\* processImage, first half: ProcessImageNoResizeForMCP fetches the image
\* and the base64 text is decoded into imageData
ProcessImage(ok, len, fetched) ==
    /\ upc = "process"
    /\ ok => (Fetchable(imageUrls[idx]) /\ ~ctx.done)
    /\ IF ok
       THEN /\ imageData' = len
            /\ source' = [source EXCEPT !.buffer =
                              Buffer(ProcessImageNoResizeForMCP(FetchedOk(fetched)))]
            /\ upc' = "dimensions"
            /\ UNCHANGED <<idx, session, spawned, task, uploadParts, uploadErrs,
                           wg, failedFiles, puts>>
       ELSE Fail("failed to process image")
    /\ UNCHANGED <<client, ctx, img, finalized, reqVars, imageUrls, uploadedFiles, uploadRet,
                   chunkEnds, completeCalls>>

\* processImage, second half: GetImageDimensions fetches the image again
GetImageDimensions(ok, fetched) ==
    /\ upc = "dimensions"
    /\ ok => (Fetchable(imageUrls[idx]) /\ ~ctx.done)
    /\ IF ok
       THEN /\ upc' = "init"
            /\ source' = [source EXCEPT !.dims =
                              ImageDimensions(FetchedOk(fetched))]
            /\ UNCHANGED <<idx, imageData, session, spawned, task, uploadParts,
                           uploadErrs, wg, failedFiles, puts>>
       ELSE Fail("failed to get image dimensions")
    /\ UNCHANGED <<client, ctx, img, finalized, reqVars, imageUrls, uploadedFiles, uploadRet,
                   chunkEnds, completeCalls>>

\* the file entry of the payload of initUploadImage
InitPayload(len, w, h) ==
    [mimetype |-> "image/png", width |-> w, height |-> h, fileSize |-> len]

\* initUploadImage sends POST /api/upload/initialize through PostJSON and As
InitUploadImage ==
    /\ upc = "init"
    /\ StartRequest("POST", "/api/upload/initialize", Payload, EmptyMap, TRUE)
    /\ source' = [source EXCEPT !.init = InitPayload(imageData, source.dims.width,
                                                     source.dims.height)]
    /\ upc' = "initWait"
    /\ UNCHANGED <<client, ctx, img, finalized, imageUrls, idx, imageData, session, spawned, task,
                   uploadParts, uploadErrs, wg, failedFiles, uploadedFiles,
                   uploadRet, chunkEnds, completeCalls, puts>>

\* initUploadImage returns; uploadParts and uploadErrs are made, one slot
\* for each upload URL
InitUploadReturn(responses) ==
    /\ upc = "initWait"
    /\ rpc = "done"
    /\ IF final.err # Nil
       THEN Fail("failed to send request")
       ELSE IF Len(responses) < 1
       THEN Fail("no upload responses received")
       ELSE /\ session' = responses[1]
            /\ uploadParts' = [i \in 1..Len(responses[1].UploadUrls) |-> Nil]
            /\ uploadErrs' = [i \in 1..Len(responses[1].UploadUrls) |-> Nil]
            /\ task' = [i \in 1..Len(responses[1].UploadUrls) |-> "none"]
            /\ puts' = [i \in 1..Len(responses[1].UploadUrls) |-> Nil]
            /\ spawned' = 0
            /\ wg' = 0
            /\ upc' = "dispatch"
            /\ UNCHANGED <<idx, imageData, source, failedFiles>>
    /\ ReqIdle
    /\ UNCHANGED <<client, ctx, img, finalized, imageUrls, uploadedFiles, uploadRet, chunkEnds,
                   completeCalls>>

\* mutant: the loop waits for the task it started before it starts the
\* next one
Spawn_AwaitEach ==
    /\ upc = "dispatch"
    /\ spawned < Len(session.UploadUrls)
    /\ wg = 0
    /\ wg' = wg + 1
    /\ spawned' = spawned + 1
    /\ task' = [task EXCEPT ![spawned + 1] = "ready"]
    /\ UNCHANGED <<client, ctx, img, finalized, reqVars, imageUrls, upc, idx, imageData, source, session,
                   uploadParts, uploadErrs, failedFiles, uploadedFiles, uploadRet,
                   chunkEnds, completeCalls, puts>>

\* one iteration of the loop over UploadUrls: wg.Add(1); go func(i, url)
Spawn ==
    /\ upc = "dispatch"
    /\ spawned < Len(session.UploadUrls)
    /\ wg' = wg + 1
    /\ spawned' = spawned + 1
    /\ task' = [task EXCEPT ![spawned + 1] = "ready"]
    /\ UNCHANGED <<client, ctx, img, finalized, reqVars, imageUrls, upc, idx, imageData, source, session,
                   uploadParts, uploadErrs, failedFiles, uploadedFiles, uploadRet,
                   chunkEnds, completeCalls, puts>>

\* the loop over UploadUrls is over: wg.Wait()
Dispatched ==
    /\ upc = "dispatch"
    /\ spawned = Len(session.UploadUrls)
    /\ upc' = "wait"
    /\ UNCHANGED <<client, ctx, img, finalized, reqVars, imageUrls, idx, imageData, source, session, spawned,
                   task, uploadParts, uploadErrs, wg, failedFiles, uploadedFiles,
                   uploadRet, chunkEnds, completeCalls, puts>>

\* ceil(len / size)
Ceil(len, size) == (len + size - 1) \div size

\* the bounds of chunk i (from 1): start and end of imageData[start:end]
ChunkStart(i) == (i - 1) * ChunkSize

ChunkEnd(i, len) == IF ChunkStart(i) + ChunkSize > len THEN len
                     ELSE ChunkStart(i) + ChunkSize

\* mutant: the PUT of a chunk carries the credential of the client
ChunkHeaders_WithBearer(len) ==
    HeaderSet(HeaderSet(HeaderSet(NoHeaders,
        "Content-Type", "application/octet-stream"),
        "Content-Length", len),
        "Authorization", BearerHeaders["Authorization"])

\* the headers uploadChunk sets on its own request to the presigned URL
ChunkHeaders(len) ==
    HeaderSet(HeaderSet(NoHeaders,
        "Content-Type", "application/octet-stream"),
        "Content-Length", len)

\* mutant: only the first slot of uploadErrs is looked at
HasErrors_FirstOnly(errs) == Len(errs) > 0 /\ errs[1] # Nil

\* the loop that sets hasErrors
HasErrors(errs) == \E i \in 1..Len(errs) : errs[i] # Nil

\* a chunk goroutine slices its chunk and sends the PUT; a start beyond the
\* end of imageData is a slice out of range: the panic ends the process
TaskStart(i) ==
    /\ upc \in {"dispatch", "wait"}
    /\ i \in 1..Len(task)
    /\ task[i] = "ready"
    /\ IF ChunkStart(i) > ChunkEnd(i, imageData)
       THEN /\ upc' = "crashed"
            /\ UNCHANGED <<task, puts>>
       ELSE /\ task' = [task EXCEPT ![i] = "put"]
            /\ puts' = [puts EXCEPT ![i] =
                          [partNumber |-> i,
                           url |-> session.UploadUrls[i],
                           start |-> ChunkStart(i),
                           end |-> ChunkEnd(i, imageData),
                           headers |-> ChunkHeaders(ChunkEnd(i, imageData)
                                                    - ChunkStart(i)),
                           sends |-> IF puts[i] = Nil THEN 1
                                     ELSE puts[i].sends + 1,
                           late |-> HasErrors(uploadErrs),
                           overtook |-> FALSE,
                           resp |-> Nil]]
            /\ UNCHANGED upc
    /\ UNCHANGED <<client, ctx, img, finalized, reqVars, imageUrls, idx, imageData, source, session, spawned,
                   uploadParts, uploadErrs, wg, failedFiles, uploadedFiles,
                   uploadRet, chunkEnds, completeCalls>>

\* what the storage answers to the PUT of a part: a status and the ETag
\* header, which is empty when the header is not there
PutResponse(partNumber, outcome) ==
    CASE outcome = "rejected" ->
           [StatusCode |-> 403, ETag |-> <<"etag", partNumber>>]
      [] outcome = "no etag" ->
           [StatusCode |-> StatusOK, ETag |-> <<>>]
      [] outcome = "ok" ->
           [StatusCode |-> StatusOK, ETag |-> <<"etag", partNumber>>]
      [] OTHER -> Nil

\* mutant: the ETag header is taken as it comes
uploadChunk_AnyETag(partNumber, outcome) ==
    LET resp == PutResponse(partNumber, outcome)
    IN  CASE outcome = PutCanceled ->
               [part |-> Nil, err |-> Wrap("failed to upload chunk", NetErr(Canceled, partNumber))]
          [] outcome = "error" ->
               [part |-> Nil, err |-> Wrap("failed to upload chunk", NetErr("put", partNumber))]
          [] resp.StatusCode # StatusOK ->
               [part |-> Nil, err |-> [kind |-> "error", msg |-> "chunk upload failed with status"]]
          [] OTHER ->
               [part |-> [ETag |-> resp.ETag, PartNumber |-> partNumber], err |-> Nil]

\* uploadChunk after httpClient.Do: the part, or the error
uploadChunk(partNumber, outcome) ==
    LET resp == PutResponse(partNumber, outcome)
    IN  CASE outcome = PutCanceled ->
               [part |-> Nil, err |-> Wrap("failed to upload chunk", NetErr(Canceled, partNumber))]
          [] outcome = "error" ->
               [part |-> Nil, err |-> Wrap("failed to upload chunk", NetErr("put", partNumber))]
          [] resp.StatusCode # StatusOK ->
               [part |-> Nil, err |-> [kind |-> "error", msg |-> "chunk upload failed with status"]]
          [] resp.ETag = <<>> ->
               [part |-> Nil, err |-> [kind |-> "error", msg |-> "missing ETag in response"]]
          [] OTHER ->
               [part |-> [ETag |-> resp.ETag, PartNumber |-> partNumber], err |-> Nil]

\* mutant: a chunk whose PUT failed is sent again
AfterChunk_RetryOnError(err) == IF err # Nil THEN "ready" ELSE "done"

\* the goroutine returns after uploadChunk, with a part or with an error
AfterChunk(err) == "done"

\* mutant: the PUT is made with a context of its own
ChunkCtx_Background(c) == Live

\* the context uploadChunk gives to http.NewRequestWithContext
ChunkCtx(c) == c

\* mutant: the tasks share the index of the loop and all write the first
\* slot
Slot_Shared(i) == 1

\* the index task i writes in uploadParts and uploadErrs: its own, handed
\* to the goroutine as an argument
Slot(i) == i

\* the PUT of chunk i ends; the goroutine fills its slot and calls wg.Done
TaskDone(i, outcome) ==
    /\ upc \in {"dispatch", "wait"}
    /\ i \in 1..Len(task)
    /\ task[i] = "put"
    /\ ChunkCtx(ctx).done <=> outcome = PutCanceled
    /\ LET r == uploadChunk(i, outcome)
       IN  IF r.err # Nil
           THEN /\ uploadErrs' = [uploadErrs EXCEPT ![Slot(i)] = r.err]
                /\ UNCHANGED uploadParts
           ELSE /\ uploadParts' = [uploadParts EXCEPT ![Slot(i)] = r.part]
                /\ UNCHANGED uploadErrs
    /\ chunkEnds' = chunkEnds \cup
                      {[image |-> idx,
                        failed |-> uploadChunk(i, outcome).err # Nil,
                        late |-> puts[i].late]}
    /\ puts' = [puts EXCEPT ![i].overtook =
                                \E j \in 1..(i - 1) : task[j] # "done",
                            ![i].resp = PutResponse(i, outcome)]
    /\ task' = [task EXCEPT ![i] = AfterChunk(uploadChunk(i, outcome).err)]
    /\ wg' = wg - 1
    /\ UNCHANGED <<client, ctx, img, finalized, reqVars, imageUrls, upc, idx, imageData, source, session,
                   spawned, failedFiles, uploadedFiles, uploadRet, completeCalls>>

\* mutant: the parts are collected from the last slot to the first
RECURSIVE Parts_Reversed(_)
Parts_Reversed(slots) ==
    IF slots = <<>> THEN <<>>
    ELSE Parts_Reversed(Tail(slots)) \o
         (IF Head(slots) = Nil THEN <<>> ELSE <<Head(slots)>>)

\* mutant: the loop goes on without wg.Wait
Joined_NoWait(counter) == TRUE

\* mutant: wg.Wait returns while a chunk goroutine is still running
Joined_Early(counter) == counter <= 1

\* wg.Wait() returns when the counter of the WaitGroup is zero
Joined(counter) == counter = 0

\* "Convert to slice without nil pointers"
RECURSIVE Parts(_)
Parts(slots) ==
    IF slots = <<>> THEN <<>>
    ELSE IF Head(slots) = Nil THEN Parts(Tail(slots))
    ELSE <<Head(slots)>> \o Parts(Tail(slots))

\* wg.Wait() returns; the image is given up if a chunk failed, else
\* completeUpload sends POST /api/upload/complete
WaitReturns ==
    /\ upc = "wait"
    /\ Joined(wg)
    /\ IF HasErrors(uploadErrs)
       THEN /\ Fail("Failed to upload some chunks")
            /\ UNCHANGED <<reqVars, completeCalls>>
       ELSE /\ StartRequest("POST", "/api/upload/complete", Payload, EmptyMap, FALSE)
            /\ completeCalls' = Append(completeCalls,
                                       [image |-> idx, parts |-> Parts(uploadParts)])
            /\ upc' = "completeWait"
            /\ UNCHANGED <<idx, imageData, source, session, spawned, task, uploadParts,
                           uploadErrs, wg, failedFiles, puts>>
    /\ UNCHANGED <<client, ctx, img, finalized, imageUrls, uploadedFiles, uploadRet, chunkEnds>>

\* mutant: only 200 completes an upload
CompleteStatus_OnlyOK(statusCode) == statusCode = StatusOK

\* the statuses completeUpload takes for success
CompleteStatus(statusCode) == statusCode \in {StatusOK, StatusCreated}

\* completeUpload after a.client.POST returned, and the end of the iteration
CompleteReturn(breaks) ==
    /\ upc = "completeWait"
    /\ rpc = "returned"
    /\ IF ret.err # Nil
       THEN Fail("failed to send request") /\ UNCHANGED uploadedFiles
       ELSE IF ret.resp = Nil
       THEN /\ upc' = "crashed"
            /\ UNCHANGED <<idx, imageData, source, session, spawned, task, uploadParts,
                           uploadErrs, wg, failedFiles, puts, uploadedFiles>>
       ELSE IF ReadAll(ret.resp, bodyClosed, breaks).err # Nil
       THEN Fail("failed to read response body") /\ UNCHANGED uploadedFiles
       ELSE IF ~CompleteStatus(ret.resp.StatusCode)
       THEN Fail("failed to complete upload") /\ UNCHANGED uploadedFiles
       ELSE /\ uploadedFiles' = Append(uploadedFiles, [image |-> idx,
                                                        file |-> session.File])
            /\ idx' = idx + 1
            /\ upc' = "image"
            /\ NoImage
            /\ UNCHANGED failedFiles
    /\ finalized' = finalized \cup
                      {[image |-> idx,
                        status |-> IF ret.resp = Nil THEN 0
                                   ELSE ret.resp.StatusCode]}
    /\ ReqIdle
    /\ UNCHANGED <<client, ctx, img, imageUrls, uploadRet, chunkEnds, completeCalls>>

\* CreateStyle sends POST /api/sd-styles through PostJSON and As
CreateStyle ==
    /\ upc = "idle"
    /\ StartRequest("POST", "/api/sd-styles", Payload, EmptyMap, TRUE)
    /\ upc' = "callWait"
    /\ UNCHANGED <<client, ctx, img, finalized, imageUrls, idx, imageData, source, session, spawned, task,
                   uploadParts, uploadErrs, wg, failedFiles, uploadedFiles,
                   uploadRet, chunkEnds, completeCalls, puts>>

\* GenerateImages sends POST /api/recipe/agi-tasks/create-task the same way
GenerateImages ==
    /\ upc = "idle"
    /\ StartRequest("POST", "/api/recipe/agi-tasks/create-task", Payload,
                    EmptyMap, TRUE)
    /\ upc' = "callWait"
    /\ UNCHANGED <<client, ctx, img, finalized, imageUrls, idx, imageData, source, session, spawned, task,
                   uploadParts, uploadErrs, wg, failedFiles, uploadedFiles,
                   uploadRet, chunkEnds, completeCalls, puts>>

\* CreateStyle or GenerateImages returns the decoded value, or an error
\* when As gave one
ApiReturn ==
    /\ upc = "callWait"
    /\ rpc = "done"
    /\ uploadRet' = [files |-> final.value, err |-> final.err]
    /\ upc' = "returned"
    /\ UNCHANGED <<client, ctx, img, finalized, reqVars, imageUrls, idx, imageData, source, session, spawned,
                   task, uploadParts, uploadErrs, wg, failedFiles, uploadedFiles,
                   chunkEnds, completeCalls, puts>>

NextUpload ==
    \/ UploadImages
    \/ CreateStyle
    \/ GenerateImages
    \/ ApiReturn
    \/ LoopHead
    \/ \E ok \in BOOLEAN, len \in 1..MaxImageLen : ProcessImage(ok, len, PngBody)
    \/ \E ok \in BOOLEAN : GetImageDimensions(ok, PngBody)
    \/ InitUploadImage
    \/ BeginAttempt
    \/ \E o \in UpErrOutcomes, used \in 0..PayloadLen : DoFailed(o, used)
    \/ \E s \in UpStatuses, b \in UpBodies : DoResponded(s, b)
    \/ AsReturn
    \/ \E responses \in InitUploadResponses : InitUploadReturn(responses)
    \/ Spawn
    \/ Dispatched
    \/ \E i \in 1..MaxUrls : TaskStart(i)
    \/ \E i \in 1..MaxUrls, outcome \in PutOutcomes : TaskDone(i, outcome)
    \/ WaitReturns
    \/ \E breaks \in BOOLEAN : CompleteReturn(breaks)

\* the caller cancels the context given to UploadImages; noted with it: the
\* image in hand, where the loop and the request of the client stood, and
\* the chunks whose PUT was on its way
Cancel ==
    /\ ~ctx.done
    /\ upc \notin {"idle", "returned", "crashed", "callWait"}
    /\ ctx' = [done |-> TRUE, image |-> idx, upc |-> upc, rpc |-> rpc,
               puts |-> {i \in 1..Len(task) : task[i] = "put"}]
    /\ UNCHANGED <<client, img, reqVars, upVars>>

InitUpload ==
    /\ client = NewGaiaApi
    /\ call = Nil
    /\ InitReq
    /\ imageUrls \in UrlLists
    /\ InitUp
    /\ img = NoProcessor

SpecUpload == InitUpload /\ [][NextUpload]_vars

(***************************************************************************)
(* UploadImages under a context that the caller may cancel.                *)
(***************************************************************************)
\* an image as large as the model has them, with as many upload URLs as it
\* has chunks
FullSession ==
    {r \in InitUploadResponses :
        r # <<>> /\ Len(r[1].UploadUrls) = Ceil(MaxImageLen, ChunkSize)}

NextCancel ==
    \/ UploadImages
    \/ Cancel
    \/ LoopHead
    \/ \E ok \in BOOLEAN : ProcessImage(ok, MaxImageLen, PngBody)
    \/ \E ok \in BOOLEAN : GetImageDimensions(ok, PngBody)
    \/ InitUploadImage
    \/ BeginAttempt
    \/ \E o \in {"timeout", Canceled}, used \in {0, PayloadLen} : DoFailed(o, used)
    \/ \E s \in {StatusOK, StatusServiceUnavailable}, b \in UpBodies : DoResponded(s, b)
    \/ AsReturn
    \/ \E responses \in FullSession : InitUploadReturn(responses)
    \/ Spawn
    \/ Dispatched
    \/ \E i \in 1..MaxUrls : TaskStart(i)
    \/ \E i \in 1..MaxUrls, outcome \in {"ok", "error", PutCanceled} : TaskDone(i, outcome)
    \/ WaitReturns
    \/ \E breaks \in BOOLEAN : CompleteReturn(breaks)

InitCancel ==
    /\ InitUpload
    /\ imageUrls \in {<<HttpsUrl>>, <<HttpsUrl, HttpUrl>>}

SpecCancel == InitCancel /\ [][NextCancel]_vars

(***************************************************************************)
(* Properties.                                                             *)
(***************************************************************************)
Returned == rpc \in {"returned", "done"}

\* the attempts made by the call so far
Attempts == Len(sent)

\* doRequest has returned the error of applyHeaders: the attempt it was
\* preparing was not sent
Aborted ==
    /\ rpc \in {"returned", "done"}
    /\ ret.err # Nil
    /\ ret.err.kind = "wrapped"
    /\ ret.err.msg = "failed to apply headers"

RetryableStatuses == {429, 500, 502, 503, 504}

\* the latest attempt ended in a failure of client.Do or in a retryable status
LastRetryable == IsErr(last.err) \/ last.status \in RetryableStatuses

\* C2: when every attempt of a request was answered 503, doRequest has made
\* exactly maxRetries + 1 attempts when it returns, and it returns what the
\* last attempt gave: the 503 response of attempt maxRetries + 1, no error.
\* (A retry that a header interceptor stopped before it was sent is a
\* return of its own kind.)
C2_RetryBound ==
    (Returned /\ ~Aborted /\ same = StatusOutcome(503)) =>
        /\ Attempts = client.maxRetries + 1
        /\ ret.err = Nil
        /\ ret.resp # Nil
        /\ ret.resp.StatusCode = 503
        /\ ret.resp.attempt = Attempts

C2_Witness ==
    /\ rpc = "returned"
    /\ same = StatusOutcome(503)
    /\ Attempts = DefaultMaxRetries + 1

C4_SameRequestOnRetry ==
    \A k \in 1..Len(sent) :
        /\ sent[k].method = sent[1].method
        /\ sent[k].endpoint = sent[1].endpoint
        /\ sent[k].body = sent[1].body

\* the body of the decoded response reached the client whole
ReadWhole(d) == Cause(d.err).kind \notin {"read failed", "read on closed body"}

\* C5: a typed request whose first k attempts were retried and whose attempt
\* k + 1 is answered 200 with a body of the expected shape returns the decoded
\* body and no error, after exactly k + 1 attempts.
C5_RecoveryOnRetry ==
    (/\ rpc = "done"
     /\ last = StatusOutcome(200)
     /\ ret.resp # Nil
     /\ ret.resp.body.jsonT
     /\ ReadWhole(decodes[1])) =>
        /\ final.err = Nil
        /\ final.value = ret.resp.body.raw
        /\ Attempts = Len(waits) + 1
        /\ Attempts <= client.maxRetries + 1

C5_Witness ==
    /\ rpc = "done"
    /\ last = StatusOutcome(200)
    /\ same = Mixed
    /\ Attempts = 2
    /\ final.err = Nil
    /\ final.value = BodyOk.raw

\* every attempt the client was given has been made and the last one called
\* for a retry
Exhausted ==
    /\ Attempts > 0
    /\ Attempts = client.maxRetries + 1
    /\ LastRetryable

\* C6 as the spec states it: after the retries are exhausted the caller of a
\* typed request holds the error of the last attempt itself: the error of
\* client.Do as it was returned, or the error made from the last response.
C6_LastErrorUnmodified ==
    (rpc = "done" /\ Exhausted) =>
        /\ final.value = ""
        /\ final.err # Nil
        /\ IsErr(last.err) => final.err = NetErr(last.err, Attempts)

\* C6, amended: after the retries are exhausted doRequest returns, for a last
\* attempt that failed in client.Do, no response and an error that wraps that
\* attempt's error (its cause); for a last attempt answered with a retryable
\* status it returns that response and a nil error, and the typed wrapper
\* turns it into an APIError of that status or a body-read error.  The typed
\* caller never holds a value or a nil error.
C6_LastErrorSurfaced ==
    (Returned /\ Exhausted) =>
        IF IsErr(last.err)
        THEN /\ ret.resp = Nil
             /\ ret.err.kind = "wrapped"
             /\ Cause(ret.err) = NetErr(last.err, Attempts)
             /\ rpc = "done" => (final.err = ret.err /\ final.value = "")
        ELSE /\ ret.err = Nil
             /\ ret.resp.StatusCode = last.status
             /\ ret.resp.attempt = Attempts
             /\ rpc = "done" =>
                   /\ final.value = ""
                   /\ \/ /\ final.err.kind = "APIError"
                         /\ final.err.StatusCode = last.status
                      \/ ~ReadWhole(final)

C6_Witness ==
    /\ rpc = "done"
    /\ Exhausted
    /\ Attempts = DefaultMaxRetries + 1
    /\ last = ErrOutcome("connection refused")
    /\ final.err.kind = "wrapped"

\* the message parseJSONResponse gives the APIError of a response
ExpectedMessage(resp) ==
    IF resp.body.jsonErr /\ resp.body.Message # ""
    THEN resp.body.Message
    ELSE resp.body.raw

\* C7 as the spec states it: the decoding of a response of status >= 400 is
\* always an APIError with the status of the response and the message of its
\* body (the raw body when it has none), and no value.
C7_ErrorStatusAlwaysAPIError ==
    (decodes # <<>> /\ ret.resp.StatusCode >= 400) =>
        /\ decodes[1].value = ""
        /\ decodes[1].err =
              APIError(ret.resp.StatusCode, ExpectedMessage(ret.resp))

\* C7, amended: the decoding of a response of status >= 400 never gives a
\* value; when the body is read whole it gives an APIError with the status
\* of the response and the message of the body (the raw body when it has
\* none); when reading the body fails it gives the read error, which is not
\* an APIError.
C7_ErrorStatusDecoding ==
    (decodes # <<>> /\ ret.resp.StatusCode >= 400) =>
        /\ decodes[1].value = ""
        /\ IF ReadWhole(decodes[1])
           THEN decodes[1].err =
                   APIError(ret.resp.StatusCode, ExpectedMessage(ret.resp))
           ELSE /\ decodes[1].err.kind = "wrapped"
                /\ decodes[1].err.msg = "failed to read response body"

C7_Witness ==
    /\ decodes # <<>>
    /\ ret.resp.StatusCode = 400
    /\ ret.resp.body = BodyApiError
    /\ decodes[1].err = APIError(400, "bad")

\* C8: a response of status < 400 whose body does not unmarshal into the
\* target gives an error that is not an APIError and no value, and no attempt
\* follows it: the attempt that brought the response stays the last one.
C8_DecodeErrorNotRetried ==
    (decodes # <<>> /\ ret.resp.StatusCode < 400 /\ ~ret.resp.body.jsonT) =>
        /\ decodes[1].value = ""
        /\ decodes[1].err # Nil
        /\ decodes[1].err.kind # "APIError"
        /\ ReadWhole(decodes[1]) => Cause(decodes[1].err).kind = "json"
        /\ Returned
        /\ Attempts = ret.resp.attempt

C8_Witness ==
    /\ rpc = "done"
    /\ ret.resp # Nil
    /\ ret.resp.StatusCode = 200
    /\ ret.resp.body = BodyText
    /\ Cause(final.err).kind = "json"
    /\ Attempts = 1
    /\ client.maxRetries = DefaultMaxRetries

\* what a decoding gave: the value, or the class of the error
Classify(d) ==
    IF d.err = Nil THEN <<"value", d.value>>
    ELSE IF d.err.kind = "APIError" THEN <<"APIError", d.err.Message>>
    ELSE <<"error", d.err.msg>>

\* C9 as the spec states it: two decodings of the same response give the same
\* value or the same class of error.
C9_DecodeTwiceSame ==
    Len(decodes) >= 2 => Classify(decodes[2]) = Classify(decodes[1])

\* C9, amended: the first decoding reads and closes the body, so a second
\* decoding of the same response gives the body-read error and no value,
\* whatever the first gave; only a response without a body (http.NoBody)
\* decodes twice to the same result.
C9_SecondDecode ==
    Len(decodes) >= 2 =>
        IF ret.resp.body.noBody
        THEN decodes[2] = decodes[1]
        ELSE /\ decodes[2].value = ""
             /\ decodes[2].err = Wrap("failed to read response body",
                                      [kind |-> "read on closed body"])

C9_Witness ==
    /\ Len(decodes) = 2
    /\ ret.resp.StatusCode = 200
    /\ decodes[1] = [err |-> Nil, value |-> BodyOk.raw]
    /\ decodes[2].err # Nil

\* the keys of the Go map m that name header c
KeysFor(m, c) == {k \in DOMAIN m : Canon(k) = c}

\* the interceptors of the client that set header c
SettersOf(c) ==
    {i \in 1..Len(client.headerInterceptors) :
        Canon(client.headerInterceptors[i].key) = c}

BuiltIn(c) ==
    CASE c = "Content-Type" -> "application/json"
      [] c = "Accept" -> "application/json"
      [] c = "User-Agent" -> "gaia-mcp-go/1.0"
      [] OTHER -> ""

\* the values header c may have by the precedence of the layers
ExpectedHeader(c) ==
    IF SettersOf(c) # {}
    THEN {client.headerInterceptors[CHOOSE i \in SettersOf(c) :
                                       \A j \in SettersOf(c) : j <= i].val}
    ELSE IF KeysFor(call.headers, c) # {}
    THEN {call.headers[k] : k \in KeysFor(call.headers, c)}
    ELSE IF KeysFor(client.defaultHeaders, c) # {}
    THEN {client.defaultHeaders[k] : k \in KeysFor(client.defaultHeaders, c)}
    ELSE {BuiltIn(c)}

\* C10: on every attempt, each header has the value given by the last layer
\* that sets it, the layers being the built-in defaults, the client's default
\* headers, the custom headers of the call, the interceptors in the order of
\* their registration.
C10_HeaderPrecedence ==
    \A k \in 1..Len(sent) : \A c \in CanonNames :
        sent[k].headers[c] \in ExpectedHeader(c)

C10_Witness ==
    /\ Len(sent) = 2
    /\ "Authorization" \in DOMAIN client.defaultHeaders
    /\ "Authorization" \in DOMAIN call.headers
    /\ Len(client.headerInterceptors) = 2
    /\ sent[2].headers["Authorization"] = "Bearer call"
    /\ sent[2].headers["Accept"] = "text/plain"
    /\ sent[2].headers["X-Sig"] = "sig2"
    /\ sent[2].headers["User-Agent"] = "gaia-mcp-go/1.0"


(***************************************************************************)
(* Properties of UploadImages.                                             *)
(***************************************************************************)
\* images of which a chunk task failed, and of which one succeeded
ChunkFailed == {e.image : e \in {x \in chunkEnds : x.failed}}

ChunkOk == {e.image : e \in {x \in chunkEnds : ~x.failed}}

FailedWith(i, error) ==
    \E k \in 1..Len(failedFiles) :
       failedFiles[k].image = i /\ failedFiles[k].error = error

Completed(i) == \E k \in 1..Len(completeCalls) : completeCalls[k].image = i

Uploaded(i) == \E k \in 1..Len(uploadedFiles) : uploadedFiles[k].image = i

\* C1: an image of which a chunk task failed never has completeUpload
\* called for it and is never added to uploadedFiles; once its iteration of
\* the loop is over it is in failedFiles with "Failed to upload some chunks"
C1_NoFinalizeOnPartialFailure ==
    \A i \in ChunkFailed :
       /\ ~Completed(i)
       /\ ~Uploaded(i)
       /\ idx > i => FailedWith(i, "Failed to upload some chunks")

\* a first image with one chunk uploaded and one failed was given up, and
\* the loop went on to upload the second image
C1_Witness ==
    /\ 1 \in ChunkFailed
    /\ 1 \in ChunkOk
    /\ FailedWith(1, "Failed to upload some chunks")
    /\ ~Completed(1)
    /\ Uploaded(2)

\* C11: the upload of a buffer of length L in chunks of size C uses exactly
\* ceil(L/C) parts; part i (from 1) is the byte range from (i-1)*C to the
\* smaller of i*C and L and has part number i; no chunk task crashes while
\* it computes its range.
C11_Partitioning ==
    session # Nil =>
        /\ upc # "crashed"
        /\ Len(session.UploadUrls) = Ceil(imageData, ChunkSize)
        /\ \A i \in 1..Len(puts) :
              puts[i] # Nil =>
                 /\ puts[i].partNumber = i
                 /\ puts[i].start = (i - 1) * ChunkSize
                 /\ puts[i].end = (IF i * ChunkSize < imageData
                                   THEN i * ChunkSize ELSE imageData)

\* C12: the parts given to completeUpload are in strictly increasing order
\* of PartNumber, in whatever order the chunk goroutines ended.
C12_PartsSorted ==
    \A k \in 1..Len(completeCalls) :
       \A a, b \in 1..Len(completeCalls[k].parts) :
          a < b => completeCalls[k].parts[a].PartNumber
                      < completeCalls[k].parts[b].PartNumber

\* completeUpload was called with two parts or more after the goroutine of
\* chunk 2 had ended before the one of chunk 1
C12_Witness ==
    /\ upc = "completeWait"
    /\ Len(completeCalls) = 1
    /\ Len(completeCalls[1].parts) >= 2
    /\ puts[2].overtook
    /\ ~puts[1].overtook

\* UploadImages has returned
UploadReturned == upc = "returned" /\ idx > 0

\* C13: UploadImages returns the uploaded files and a nil error exactly when
\* no image failed; when an image failed it returns no files and an
\* aggregate error, other images having been uploaded or not.
C13_AllOrNothing ==
    UploadReturned =>
        /\ uploadRet.err = Nil <=> failedFiles = <<>>
        /\ failedFiles = <<>> => uploadRet.files = uploadedFiles
        /\ failedFiles # <<>> =>
              /\ uploadRet.files = <<>>
              /\ uploadRet.err.kind = "error"
              /\ uploadRet.err.msg = "failed to upload some files"

\* the first image failed, the second was uploaded and completed, and the
\* call returned the error alone
C13_Witness ==
    /\ UploadReturned
    /\ Len(failedFiles) = 1
    /\ failedFiles[1].image = 1
    /\ Uploaded(2)
    /\ Completed(2)
    /\ uploadRet.files = <<>>
    /\ uploadRet.err # Nil

\* the entries of failedFiles for image i
FailedEntries(i) == {k \in 1..Len(failedFiles) : failedFiles[k].image = i}

\* the entries of uploadedFiles for image i
UploadedEntries(i) == {k \in 1..Len(uploadedFiles) : uploadedFiles[k].image = i}

\* C14: when UploadImages returns, every reference of the input went through
\* the loop and is either uploaded or in failedFiles, never in both; a
\* failed reference has one entry, with its URL and a reason; the aggregate
\* error carries these entries and no other.
C14_AggregateNamesFailures ==
    UploadReturned =>
        /\ \A i \in 1..Len(imageUrls) :
              /\ Cardinality(FailedEntries(i)) + Cardinality(UploadedEntries(i)) = 1
              /\ \A k \in FailedEntries(i) :
                    /\ failedFiles[k].url = imageUrls[i]
                    /\ failedFiles[k].error # ""
              /\ i \in ChunkFailed => FailedEntries(i) # {}
              /\ UploadedEntries(i) # {} => Completed(i)
        /\ Len(failedFiles) + Len(uploadedFiles) = Len(imageUrls)
        /\ failedFiles # <<>> => uploadRet.err.failedFiles = failedFiles

\* of two references the first could not be fetched; the second was
\* uploaded, and the error names the first alone
C14_Witness ==
    /\ UploadReturned
    /\ imageUrls = <<HttpsUrl, HttpUrl>>
    /\ uploadRet.err # Nil
    /\ Len(uploadRet.err.failedFiles) = 1
    /\ uploadRet.err.failedFiles[1].url = HttpsUrl
    /\ uploadRet.err.failedFiles[1].error = "failed to process image"
    /\ UploadedEntries(2) # {}

\* an HTTP(S) URL
IsHttpUrl(url) ==
    \/ HasPrefix(url, <<"h", "t", "t", "p", ":", "/", "/">>)
    \/ HasPrefix(url, <<"h", "t", "t", "p", "s", ":", "/", "/">>)

\* C15: a reference that is not an HTTP(S) URL never leaves the check of the
\* URL: no step of the pipeline (fetch, initialize, chunk upload, complete)
\* is started for it, and it is in failedFiles with the validation error.
C15_ValidationBeforeNetwork ==
    \A i \in 1..Len(imageUrls) :
       ~IsHttpUrl(imageUrls[i]) =>
          /\ idx = i => upc = "image"
          /\ \A k \in FailedEntries(i) :
                failedFiles[k].error = "URL must start with http:// or https://"
          /\ UploadedEntries(i) = {}

\* the step of the image in hand; 0 when no image is in hand
StepOf(pc) ==
    CASE pc = "image" -> 1                       \* Validating
      [] pc \in {"process", "dimensions"} -> 2   \* Processing
      [] pc \in {"init", "initWait"} -> 3         \* Initializing
      [] pc \in {"dispatch", "wait"} -> 4         \* UploadingParts
      [] pc = "completeWait" -> 5                 \* Completing
      [] OTHER -> 0

\* one step of the loop of UploadImages, seen from the image in hand
ImageStep ==
    IF idx' = idx
    THEN \* the image stays in its step, or enters the next one, or the call ends
         /\ UNCHANGED <<failedFiles, uploadedFiles>>
         /\ \/ StepOf(upc') \in {StepOf(upc), StepOf(upc) + 1}
            \/ upc = "image" /\ upc' = "returned" /\ idx > Len(imageUrls)
            \/ StepOf(upc) = 4 /\ upc' = "crashed"
         \* Completing is entered after every chunk goroutine gave a part
         /\ (StepOf(upc) = 4 /\ StepOf(upc') = 5) =>
               /\ \A i \in 1..Len(task) : task[i] = "done"
               /\ \A i \in 1..Len(uploadErrs) : uploadErrs[i] = Nil
               /\ Len(completeCalls') = Len(completeCalls) + 1
               /\ completeCalls'[Len(completeCalls')].image = idx
         /\ StepOf(upc') # 5 => completeCalls' = completeCalls
    ELSE \* Failed or Done: the loop goes to the next image
         /\ idx' = idx + 1
         /\ upc' = "image"
         /\ completeCalls' = completeCalls
         /\ \/ /\ Len(failedFiles') = Len(failedFiles) + 1
               /\ failedFiles'[Len(failedFiles')].image = idx
               /\ uploadedFiles' = uploadedFiles
            \/ /\ StepOf(upc) = 5
               /\ Len(uploadedFiles') = Len(uploadedFiles) + 1
               /\ uploadedFiles'[Len(uploadedFiles')].image = idx
               /\ failedFiles' = failedFiles

\* nothing was recorded for the image in hand, and what a step needs is there
ImageInHand ==
    /\ StepOf(upc) > 0 => (FailedEntries(idx) = {} /\ UploadedEntries(idx) = {})
    /\ StepOf(upc) \in {1, 2} => (session = Nil /\ rpc = "idle")
    /\ StepOf(upc) = 3 => (session = Nil /\ imageData > 0)
    /\ StepOf(upc) \in {4, 5} => session # Nil
    /\ StepOf(upc) \in {1, 2, 3} => (\A i \in 1..Len(puts) : puts[i] = Nil)
    /\ StepOf(upc) # 5 => ~Completed(idx)
    /\ \A k \in 1..Len(completeCalls) : completeCalls[k].image <= idx

\* C16: the steps of an image come in the order Validating, Processing,
\* Initializing, UploadingParts, Completing, Done, each after the one before
\* it succeeded; an image that failed in a step is recorded and left: no
\* later step is made for it.
C16_ImageStateMachine ==
    /\ [](idx > 0 => ImageInHand)
    /\ [][idx > 0 => ImageStep]_vars

\* the first image failed in Initializing and was left; the second went
\* through every step up to Completing
C16_Witness ==
    /\ imageUrls = <<HttpsUrl, HttpUrl>>
    /\ FailedWith(1, "no upload responses received")
    /\ idx = 2
    /\ upc = "completeWait"
    /\ Completed(2)
    /\ ~Completed(1)

\* C17: wg.Wait returns, and the check of uploadErrs is made, only when every
\* upload URL of the image had its goroutine started and every goroutine has
\* sent its PUT and ended; a goroutine sends its PUT whether or not another
\* chunk of the image has failed.
C17_JoinBarrier ==
    [][/\ (upc = "dispatch" /\ upc' # "dispatch") => upc' \in {"wait", "crashed"}
       /\ (upc = "wait" /\ upc' \notin {"wait", "crashed"}) =>
             /\ spawned = Len(session.UploadUrls)
             /\ wg = 0
             /\ \A i \in 1..Len(task) :
                   /\ task[i] = "done"
                   /\ puts[i] # Nil
                   /\ uploadParts[i] # Nil \/ uploadErrs[i] # Nil
       /\ \A i \in 1..Len(task) :
             (task[i] = "ready" /\ upc' # "crashed" /\ HasErrors(uploadErrs)
                 /\ task'[i] # "ready") =>
                (task'[i] = "put" /\ puts'[i] # Nil)
      ]_vars

\* the first image was given up after the join; one of its chunks had sent
\* its PUT after another chunk had failed, and ended with a part
C17_Witness ==
    /\ idx = 2
    /\ FailedWith(1, "Failed to upload some chunks")
    /\ [image |-> 1, failed |-> FALSE, late |-> TRUE] \in chunkEnds
    /\ [image |-> 1, failed |-> TRUE, late |-> FALSE] \in chunkEnds

C20_ApiCallSent ==
    /\ upc = "callWait"
    /\ Len(sent) = 2
    /\ sent[2].endpoint = "/api/sd-styles"
    /\ sent[2].headers["Authorization"] = "Bearer key"

\* C18: after the caller cancelled the context, every network call that was
\* on its way ends with the cancellation error: a fetch of the source fails
\* the image, a request of the client returns no response and an error whose
\* cause is the cancellation, and a PUT of a chunk leaves that error in the
\* chunk's slot, so that the image is given up after the join and
\* completeUpload is not called for it.
C18_Cancellation ==
    ctx.done =>
        /\ ctx.puts # {} =>
              /\ ~Completed(ctx.image)
              /\ UploadedEntries(ctx.image) = {}
              /\ idx = ctx.image =>
                    \A i \in ctx.puts :
                       task[i] = "done" =>
                          /\ uploadParts[i] = Nil
                          /\ Cause(uploadErrs[i]).kind = Canceled
              /\ idx > ctx.image =>
                    FailedWith(ctx.image, "Failed to upload some chunks")
        /\ ctx.rpc = "inflight" =>
              /\ UploadedEntries(ctx.image) = {}
              /\ (idx = ctx.image /\ rpc = "loop") => last = ErrOutcome(Canceled)
              /\ (idx = ctx.image /\ rpc \in {"returned", "done"}) =>
                    /\ ret.resp = Nil
                    /\ Cause(ret.err).kind = Canceled
              /\ idx > ctx.image => FailedWith(ctx.image, "failed to send request")
        /\ ctx.upc \in {"process", "dimensions"} =>
              /\ idx = ctx.image => upc = ctx.upc
              /\ idx > ctx.image =>
                    \/ FailedWith(ctx.image, "failed to process image")
                    \/ FailedWith(ctx.image, "failed to get image dimensions")

\* the context was cancelled while the PUTs of both chunks of the first image
\* were on their way; the image was given up and the loop has moved on
C18_Witness ==
    /\ ctx.done
    /\ ctx.image = 1
    /\ ctx.puts = {1, 2}
    /\ idx = 2
    /\ FailedWith(1, "Failed to upload some chunks")
    /\ ~Completed(1)

\* the context was cancelled while the complete request was on its way
C18_CompleteAborted ==
    /\ ctx.done
    /\ ctx.upc = "completeWait"
    /\ ctx.rpc = "inflight"
    /\ upc = "returned"
    /\ FailedWith(1, "failed to send request")

(***************************************************************************)
(* C21: UploadImages called with an empty list of image URLs makes no      *)
(* network call and returns an empty result with a nil error: from the     *)
(* call to the return no image is fetched, no request is handed to the     *)
(* client, no chunk is put and finalize is not called; no step of the      *)
(* call changes what was sent.                                             *)
(***************************************************************************)
\* UploadImages is running, or has returned
InUploadImages == idx > 0

\* no fetch, request, PUT or finalize is under way or was made
NoNetworkCall ==
    /\ upc \in {"image", "returned"}
    /\ call = Nil /\ rpc = "idle" /\ sent = <<>>
    /\ puts = <<>> /\ task = <<>> /\ spawned = 0
    /\ completeCalls = <<>> /\ chunkEnds = {}

C21_EmptyListState ==
    (imageUrls = <<>> /\ InUploadImages) =>
        /\ NoNetworkCall
        /\ upc = "returned" => uploadRet = [files |-> <<>>, err |-> Nil]

C21_EmptyList ==
    /\ [](C21_EmptyListState)
    /\ [][(imageUrls = <<>> /\ InUploadImages) =>
            /\ upc = "image" /\ upc' = "returned"
            /\ sent' = sent /\ puts' = puts /\ completeCalls' = completeCalls]_vars

C21_Witness ==
    /\ imageUrls = <<>>
    /\ UploadReturned
    /\ uploadRet = [files |-> <<>>, err |-> Nil]

(***************************************************************************)
(* UploadImages of one image whose URL may hold another image each time it *)
(* is fetched.                                                             *)
(***************************************************************************)
\* the largest side of the images the URL holds
MaxSourceSide == 2

SourceBodies ==
    {b \in ImageBodies : b.image.w <= MaxSourceSide /\ b.image.h <= MaxSourceSide}

NextSource ==
    \/ UploadImages
    \/ LoopHead
    \/ \E ok \in BOOLEAN, fetched \in SourceBodies :
          ProcessImage(ok, MaxImageLen, fetched)
    \/ \E ok \in BOOLEAN, fetched \in SourceBodies : GetImageDimensions(ok, fetched)
    \/ InitUploadImage
    \/ BeginAttempt
    \/ \E b \in UpBodies : DoResponded(StatusOK, b)
    \/ AsReturn
    \/ \E responses \in FullSession : InitUploadReturn(responses)
    \/ Spawn
    \/ Dispatched
    \/ \E i \in 1..MaxUrls : TaskStart(i)
    \/ \E i \in 1..MaxUrls : TaskDone(i, "ok")
    \/ WaitReturns
    \/ \E breaks \in BOOLEAN : CompleteReturn(breaks)

InitSource ==
    /\ InitUpload
    /\ imageUrls = <<HttpsUrl>>

SpecSource == InitSource /\ [][NextSource]_vars

(***************************************************************************)
(* The calls into package imageutil.                                       *)
(***************************************************************************)
\* a Processor was made by NewProcessor(config) and no call was made yet
Processor(config) == [pc |-> "idle", config |-> config]

\* a call of one of the functions returned
Returns(fn, input, value) ==
    img' = [pc |-> "returned", fn |-> fn, config |-> img.config,
            input |-> input, ret |-> value]

CallDownloadImage(outcome) ==
    /\ img.pc = "idle"
    /\ Returns("DownloadImage", outcome, downloadImage(outcome))
    /\ UNCHANGED <<client, ctx, reqVars, upVars>>

CallResizeImage(src) ==
    /\ img.pc = "idle"
    /\ Returns("ResizeImage", src, resizeImage(src, img.config))
    /\ UNCHANGED <<client, ctx, reqVars, upVars>>

CallProcessImageFromURL(outcome) ==
    /\ img.pc = "idle"
    /\ Returns("ProcessImageFromURL", outcome,
               ProcessImageFromURL(img.config, outcome))
    /\ UNCHANGED <<client, ctx, reqVars, upVars>>

CallProcessImageFromURLForMCP(outcome) ==
    /\ img.pc = "idle"
    /\ Returns("ProcessImageFromURLForMCP", outcome,
               ProcessImageFromURLForMCP(img.config, outcome))
    /\ UNCHANGED <<client, ctx, reqVars, upVars>>

CallGetImageDimensions(outcome) ==
    /\ img.pc = "idle"
    /\ Returns("GetImageDimensions", outcome, ImageDimensions(outcome))
    /\ UNCHANGED <<client, ctx, reqVars, upVars>>

NextImage ==
    \/ \E outcome \in FetchOutcomes : CallDownloadImage(outcome)
    \/ \E src \in Images : CallResizeImage(src)
    \/ \E outcome \in FetchOutcomes : CallProcessImageFromURL(outcome)
    \/ \E outcome \in FetchOutcomes : CallProcessImageFromURLForMCP(outcome)
    \/ \E outcome \in FetchOutcomes : CallGetImageDimensions(outcome)

InitImage ==
    /\ client = NewGaiaApi
    /\ call = Nil
    /\ InitReq
    /\ imageUrls = <<>>
    /\ InitUp
    /\ img \in {Processor(config) : config \in ProcessorConfigs}

SpecImage == InitImage /\ [][NextImage]_vars

(***************************************************************************)
(* C22: when the fetch of an image fails (no request can be made, the      *)
(* request fails, the status is not 2xx, the body cannot be read or is no  *)
(* image), downloadImage returns an error with no image and an empty       *)
(* format; it never returns an image or a format beside an error; and      *)
(* ProcessImageFromURL, ProcessImageFromURLForMCP and GetImageDimensions   *)
(* then return an error with an empty text, or with zero dimensions.       *)
(***************************************************************************)
\* the fetch failed: the request, the status or the payload
FetchFails(outcome) ==
    \/ outcome.kind \in {"bad url", "do failed"}
    \/ /\ outcome.kind = "response"
       /\ \/ outcome.status \notin 200..299
          \/ outcome.body.kind # "image"

C22_FetchFailure ==
    img.pc = "returned" =>
        /\ (img.fn = "DownloadImage" /\ FetchFails(img.input)) =>
              img.ret.err # Nil
        /\ (img.fn = "DownloadImage" /\ img.ret.err # Nil) =>
              img.ret.image = Nil /\ img.ret.format = ""
        /\ (img.fn = "ProcessImageFromURL" /\ FetchFails(img.input)) =>
              img.ret.err # Nil /\ img.ret.value = <<>>
        /\ (img.fn = "ProcessImageFromURLForMCP" /\ FetchFails(img.input)) =>
              /\ img.ret.err # Nil
              /\ img.ret.base64Data = <<>> /\ img.ret.mimeType = ""
        /\ (img.fn = "GetImageDimensions" /\ FetchFails(img.input)) =>
              /\ img.ret.err # Nil
              /\ img.ret.width = 0 /\ img.ret.height = 0

\* a 404 that carries an image all the same was answered with an error by
\* ProcessImageFromURLForMCP
C22_Witness ==
    /\ img.pc = "returned"
    /\ img.fn = "ProcessImageFromURLForMCP"
    /\ img.input.kind = "response"
    /\ img.input.status = 404
    /\ img.input.body.kind = "image"
    /\ img.ret.err # Nil
    /\ img.ret.base64Data = <<>>

(***************************************************************************)
(* C23: resizeImage of a source of w x h pixels under the bounds W x H,    *)
(* with scale = min(W/w, H/h): the source is returned as it is when        *)
(* scale >= 1, else the result is exactly round(w*scale) x round(h*scale)  *)
(* pixels and fits within W x H.                                           *)
(***************************************************************************)
\* round(n * num / den), halves rounded away from zero
RoundScaled(n, num, den) == (2 * n * num + den) \div (2 * den)

\* the result the scaling algorithm names for src under config
RoundedResize(src, config) ==
    LET byHeight == config.MaxHeight * src.w < config.MaxWidth * src.h
        num == IF byHeight THEN config.MaxHeight ELSE config.MaxWidth
        den == IF byHeight THEN src.h ELSE src.w
    IN  IF num >= den
        THEN src
        ELSE [w |-> RoundScaled(src.w, num, den),
              h |-> RoundScaled(src.h, num, den)]

C23_ResizeRounds ==
    (img.pc = "returned" /\ img.fn = "ResizeImage") =>
        /\ img.ret = RoundedResize(img.input, img.config)
        /\ img.ret # img.input =>
              /\ img.ret.w <= img.config.MaxWidth
              /\ img.ret.h <= img.config.MaxHeight

\* what holds of the code: the fractions are cut off, the result fits
C23_ResizeTruncates ==
    (img.pc = "returned" /\ img.fn = "ResizeImage") =>
        LET src == img.input
            config == img.config
            byHeight == config.MaxHeight * src.w < config.MaxWidth * src.h
            num == IF byHeight THEN config.MaxHeight ELSE config.MaxWidth
            den == IF byHeight THEN src.h ELSE src.w
        IN  /\ num >= den => img.ret = src
            /\ num < den =>
                  /\ img.ret.w = (src.w * num) \div den
                  /\ img.ret.h = (src.h * num) \div den
                  /\ img.ret.w <= config.MaxWidth
                  /\ img.ret.h <= config.MaxHeight

\* a source of 4 x 3 under the bounds 2 x 2 came back as 2 x 1
C23_Witness ==
    /\ img.pc = "returned"
    /\ img.fn = "ResizeImage"
    /\ img.input = [w |-> 4, h |-> 3]
    /\ img.config = [MaxWidth |-> 2, MaxHeight |-> 2]
    /\ img.ret = [w |-> 2, h |-> 1]

(***************************************************************************)
(* C24: the wait between attempt n and attempt n + 1 (n counted from 1)    *)
(* is retryDelay * n, after a failure of client.Do as after a retryable    *)
(* status; an attempt that is followed by no other is followed by no       *)
(* wait; a request whose maxRetries + 1 attempts all failed has waited     *)
(* retryDelay * maxRetries * (maxRetries + 1) / 2 in all.                  *)
(***************************************************************************)
RECURSIVE SumSeq(_)
SumSeq(s) == IF s = <<>> THEN 0 ELSE s[1] + SumSeq(Tail(s))

C24_WaitsLinear ==
    /\ \A n \in 1..Len(waits) : waits[n] = client.retryDelay * n
    /\ Returned => Len(waits) = (IF Aborted THEN Attempts ELSE Attempts - 1)
                    \/ Attempts = 0
    /\ (Returned /\ Exhausted) =>
          2 * SumSeq(waits) =
              client.retryDelay * client.maxRetries * (client.maxRetries + 1)

C25_BodiesClosed ==
    /\ Cardinality(bodyOpen) <= 1
    /\ rpc \in {"loop", "inflight"} => bodyOpen = {}
    /\ Returned =>
          bodyOpen \subseteq (IF ret.resp = Nil THEN {} ELSE {ret.resp.attempt})

C25_BodyClosedBeforeRetry ==
    /\ [](C25_BodiesClosed)
    /\ [][(rpc = "inflight" /\ rpc' = "loop") => bodyOpen' = {}]_vars

\* the fourth response is handed over open after three responses with a
\* retryable status were closed
C25_Witness ==
    /\ rpc = "returned"
    /\ Attempts = DefaultMaxRetries + 1
    /\ same = StatusOutcome(StatusServiceUnavailable)
    /\ bodyOpen = {DefaultMaxRetries + 1}

(***************************************************************************)
(* C26: the chunk tasks of an image write only the slots of uploadParts    *)
(* and uploadErrs, which are as long as the list of upload URLs; task i    *)
(* writes slot i alone and writes it once; after the join exactly one of   *)
(* uploadParts[i] and uploadErrs[i] is set for every i, and the part in    *)
(* slot i has the part number of task i.                                   *)
(***************************************************************************)
\* wg.Wait() has returned and the slots of the image are still in hand
AfterJoin == (upc = "wait" /\ wg = 0) \/ upc = "completeWait"

C26_SlotsState ==
    /\ session # Nil =>
          /\ Len(uploadParts) = Len(session.UploadUrls)
          /\ Len(uploadErrs) = Len(session.UploadUrls)
    /\ AfterJoin =>
          \A i \in 1..Len(uploadParts) :
             /\ (uploadParts[i] # Nil) # (uploadErrs[i] # Nil)
             /\ uploadParts[i] # Nil => uploadParts[i].PartNumber = i

\* a step between the making of the slots and the end of the image
SlotsKept == session # Nil /\ session' = session /\ idx' = idx

C26_SlotDiscipline ==
    /\ [](C26_SlotsState)
    /\ [][SlotsKept =>
            \A j \in 1..Len(uploadParts) :
               (uploadParts'[j] # uploadParts[j] \/ uploadErrs'[j] # uploadErrs[j])
                  => /\ task[j] = "put" /\ task'[j] = "done"
                     /\ uploadParts[j] = Nil /\ uploadErrs[j] = Nil
                     /\ \A k \in (1..Len(task)) \ {j} : task'[k] = task[k]]_vars

\* three tasks have ended, the second before the first: two parts and one
\* error are in their own slots
C26_Witness ==
    /\ upc = "wait" /\ wg = 0
    /\ Len(uploadParts) = 3
    /\ uploadParts[1] # Nil /\ uploadErrs[2] # Nil /\ uploadParts[3] # Nil
    /\ puts[2].overtook

(***************************************************************************)
(* C27: all chunk tasks of an image are started before wg.Wait() is        *)
(* called: the loop over the upload URLs never waits for a task, a task    *)
(* that was started can send its PUT whatever the other tasks have done,   *)
(* and the wait begins only when a task was started for every upload URL.  *)
(***************************************************************************)
C27_DispatchBeforeAwait ==
    /\ (upc = "dispatch" /\ spawned < Len(session.UploadUrls)) => ENABLED Spawn
    /\ upc \in {"dispatch", "wait"} =>
          \A i \in 1..Len(task) : task[i] = "ready" => ENABLED TaskStart(i)
    /\ upc = "wait" =>
          /\ spawned = Len(session.UploadUrls)
          /\ \A i \in 1..Len(session.UploadUrls) : task[i] # "none"

\* the PUTs of all chunks of an image are in flight at the same time
C27_Witness ==
    /\ upc = "wait"
    /\ Len(task) >= 2
    /\ \A i \in 1..Len(task) : task[i] = "put"

(***************************************************************************)
(* C28: the finalize request (POST /api/upload/complete) of an image       *)
(* whose parts all succeeded is sent to the service exactly once, and no   *)
(* finalize request is sent for any other image.                           *)
(***************************************************************************)
\* the requests doRequest has sent for the finalize call of the image in hand
FinalizeSends ==
    IF upc = "completeWait"
    THEN {k \in 1..Len(sent) : sent[k].endpoint = "/api/upload/complete"}
    ELSE {}

C28_FinalizeSentOnce ==
    /\ Cardinality(FinalizeSends) <= 1
    /\ (upc = "completeWait" /\ rpc = "returned") => Cardinality(FinalizeSends) = 1
    /\ \A i \in ChunkFailed : ~Completed(i)
    /\ upc # "completeWait" =>
          \A k \in 1..Len(sent) : sent[k].endpoint # "/api/upload/complete"

\* what holds of the code: completeUpload is called at most once for an
\* image, only when no chunk failed, and its request is sent once per
\* attempt of doRequest, up to maxRetries + 1 times
C28_FinalizeCalledOnce ==
    /\ \A k, l \in 1..Len(completeCalls) :
          completeCalls[k].image = completeCalls[l].image => k = l
    /\ \A i \in ChunkFailed : ~Completed(i)
    /\ Cardinality(FinalizeSends) <= client.maxRetries + 1
    /\ (upc = "completeWait" /\ rpc = "returned") => Cardinality(FinalizeSends) >= 1
    /\ upc # "completeWait" =>
          \A k \in 1..Len(sent) : sent[k].endpoint # "/api/upload/complete"

\* the finalize request of one image went out four times, from the second
\* time on without its payload
C28_FinalizeSentAgain ==
    /\ upc = "completeWait"
    /\ rpc = "returned"
    /\ Cardinality(FinalizeSends) = DefaultMaxRetries + 1
    /\ sent[1].body # sent[2].body

(***************************************************************************)
(* C29: an image is added to uploadedFiles if and only if all its parts    *)
(* succeeded and the finalize response has status 200 or 201; after a      *)
(* transport error of finalize, or any other status, the image is          *)
(* recorded in failedFiles with that reason.                               *)
(***************************************************************************)
\* completeUpload returns and the iteration of the image in hand ends
FinalizeEnds == upc = "completeWait" /\ rpc = "returned" /\ upc' # "crashed"

\* doRequest handed over a response with status 200 or 201
FinalizeOk ==
    /\ ret.err = Nil
    /\ ret.resp # Nil
    /\ ret.resp.StatusCode \in {StatusOK, StatusCreated}

\* this step adds the image in hand to uploadedFiles
AddedNow ==
    /\ uploadedFiles' = Append(uploadedFiles, [image |-> idx, file |-> session.File])
    /\ failedFiles' = failedFiles

\* this step records the image in hand in failedFiles with the reason
FailedNow(reason) ==
    /\ failedFiles' = Append(failedFiles, [image |-> idx, url |-> imageUrls[idx],
                                           error |-> reason])
    /\ uploadedFiles' = uploadedFiles

\* an image in uploadedFiles went through finalize after all its chunks
\* had succeeded
UploadedWereFinalized ==
    \A i \in 1..Len(imageUrls) : Uploaded(i) => Completed(i) /\ i \notin ChunkFailed

GoodPutResponse(resp) ==
    resp # Nil /\ resp.StatusCode = StatusOK /\ resp.ETag # <<>>

ConfigFields == {"maxRetries", "retryDelay", "defaultHeaders", "headerInterceptors"}

\* a call of doRequest starts: nothing of an earlier call is in its variables
StartsFresh ==
    (rpc = "idle" /\ rpc' # "idle") =>
        /\ attempt' = 0 /\ bodyOff' = 0 /\ sent' = <<>> /\ waits' = <<>>
        /\ lastErr' = Nil /\ ret' = NoRet /\ bodyOpen' = {}

Declared == source.init # Nil

C32_DimensionsOfBuffer ==
    Declared =>
        /\ source.init.width = source.buffer.image.w
        /\ source.init.height = source.buffer.image.h

\* what holds of the code: the declared dimensions are those of the image
\* that GetImageDimensions fetched, the declared size is that of the buffer
C32_DimensionsOfSecondFetch ==
    Declared =>
        /\ source.init.width = source.dims.width
        /\ source.init.height = source.dims.height
        /\ source.init.fileSize = imageData

\* the image was uploaded and finalized as 1 x 2 while its buffer holds an
\* image of 2 x 1
C32_OtherImageDeclared ==
    /\ upc = "completeWait"
    /\ source.buffer.image = [w |-> 2, h |-> 1]
    /\ source.init.width = 1 /\ source.init.height = 2

(***************************************************************************)
(* C33: the MIME type declared to /api/upload/initialize is the MIME type  *)
(* of the buffer that is uploaded: image/jpeg for a buffer encoded as      *)
(* JPEG, image/png for one encoded as PNG.                                 *)
(***************************************************************************)
C33_MimeTypeOfBuffer ==
    Declared => source.init.mimetype = source.buffer.mimeType

\* what holds of the code: image/png is declared whatever the buffer is
C33_MimeTypeConstant ==
    Declared => source.init.mimetype = "image/png"

\* a buffer encoded as JPEG was uploaded and finalized as image/png
C33_JpegDeclaredPng ==
    /\ upc = "completeWait"
    /\ source.buffer.mimeType = "image/jpeg"
    /\ source.init.mimetype = "image/png"

(***************************************************************************)
(* C34: byte coverage.  Whenever finalize is called for an image, the      *)
(* chunks that were uploaded are disjoint and together cover every byte of *)
(* the buffer exactly once, whatever the number of upload URLs of the      *)
(* initialize response (fewer than, equal to or more than ceil(L/C), zero  *)
(* included).                                                              *)
(***************************************************************************)
\* the chunks whose PUT carried byte b of imageData (bytes count from 0)
ChunksWith(b) ==
    {i \in 1..Len(puts) : puts[i] # Nil /\ puts[i].start <= b /\ b < puts[i].end}

\* finalize was called for the image in hand
FinalizeCalled == upc = "completeWait"

C34_ByteCoverage ==
    FinalizeCalled =>
        \A b \in 0..(imageData - 1) : Cardinality(ChunksWith(b)) = 1

\* what holds of the code: no byte is uploaded twice, and the bytes that are
\* uploaded are the first n * UPLOAD_CHUNK_SIZE of the buffer, n the number
\* of upload URLs
C34_PrefixCoverage ==
    FinalizeCalled =>
        \A b \in 0..(imageData - 1) :
            Cardinality(ChunksWith(b)) =
                IF b < Len(session.UploadUrls) * ChunkSize THEN 1 ELSE 0

\* finalize was called for a buffer of which the last bytes were never sent
C34_BytesLeftOut ==
    /\ FinalizeCalled
    /\ imageData = MaxImageLen
    /\ Len(session.UploadUrls) = 1
    /\ ChunksWith(MaxImageLen - 1) = {}

\* finalize was called for a buffer of which no part was sent at all
C34_NothingSent ==
    /\ FinalizeCalled
    /\ Len(session.UploadUrls) = 0
    /\ completeCalls[Len(completeCalls)].parts = <<>>

(***************************************************************************)
(* C35: doRequest result invariant.  For every configuration of the client *)
(* (MaxRetries zero or negative included) and every sequence of attempt    *)
(* outcomes, doRequest returns a response with a nil error or a nil        *)
(* response with an error, never both nil; the typed wrappers never decode *)
(* a nil response.                                                         *)
(***************************************************************************)
\* doRequest returned and its results are still in hand
DoRequestReturned == rpc = "returned"

OneOfResponseAndError ==
    \/ ret.resp # Nil /\ ret.err = Nil
    \/ ret.resp = Nil /\ ret.err # Nil

C35_ResponseOrError ==
    /\ DoRequestReturned => OneOfResponseAndError
    /\ rpc # "panic"

\* what holds of the code: the result invariant for a client whose retry
\* count is not negative
C35_ResponseOrErrorNonNegative ==
    client.maxRetries >= 0 =>
        /\ DoRequestReturned => OneOfResponseAndError
        /\ rpc # "panic"

\* a client made with a negative MaxRetries: no attempt was made, the typed
\* wrapper got (nil, nil) and dereferenced the nil response
C35_NilResponseDecoded ==
    /\ rpc = "panic"
    /\ client.maxRetries < 0
    /\ sent = <<>>
    /\ ret = [resp |-> Nil, err |-> Nil]

(***************************************************************************)
(* C36: a header interceptor that returns an error aborts the request.     *)
(* doRequest returns that error at once, sends no HTTP call for that       *)
(* attempt, and makes no further attempt or wait.                          *)
(***************************************************************************)
\* the error of the first interceptor that fails on the calls of attempt n,
\* Nil when none does
RECURSIVE InterceptorError(_, _)
InterceptorError(ints, n) ==
    IF ints = <<>> THEN Nil
    ELSE IF Head(ints).fails /\ n >= Head(ints).from
         THEN [kind |-> "interceptor", cause |-> Head(ints).val]
         ELSE InterceptorError(Tail(ints), n)

\* doRequest is about to prepare an attempt in which an interceptor fails
InterceptorFailsNow ==
    /\ rpc = "loop"
    /\ attempt <= client.maxRetries
    /\ InterceptorError(client.headerInterceptors, attempt) # Nil

\* the step that finds the error returns it (as the cause of the error of
\* doRequest, wrapped with %w) and sends nothing
AbortsAtOnce ==
    InterceptorFailsNow =>
        /\ rpc' = "returned"
        /\ ret'.resp = Nil
        /\ Cause(ret'.err) =
               InterceptorError(client.headerInterceptors, attempt)
        /\ sent' = sent
        /\ waits' = waits
        /\ attempt' = attempt

\* after the return: no call, no wait, no attempt
NothingAfterAbort ==
    Aborted => sent' = sent /\ waits' = waits /\ attempt' = attempt

C36_InterceptorErrorAborts ==
    /\ [](Aborted => Len(sent) = attempt /\ Len(waits) = attempt)
    /\ [][AbortsAtOnce]_vars
    /\ [][NothingAfterAbort]_vars

\* the interceptor failed on the second attempt: one call was sent, one
\* wait was made, and the typed caller holds the error
C36_Witness ==
    /\ rpc = "done"
    /\ Aborted
    /\ attempt = 1
    /\ Len(sent) = 1
    /\ Len(waits) = 1
    /\ final.err = ret.err
    /\ Cause(ret.err) = [kind |-> "interceptor", cause |-> "key gone"]

\* the interceptor failed on the first attempt: nothing was sent
C36_FirstAttemptAborted ==
    /\ Aborted
    /\ attempt = 0
    /\ sent = <<>>
    /\ waits = <<>>

(***************************************************************************)
(* C37: the images of a batch are processed one after another.  At every   *)
(* moment at most one image has a pipeline in progress, and the number of  *)
(* chunk tasks in flight never exceeds the number of upload URLs of that   *)
(* one image.                                                              *)
(***************************************************************************)
\* the chunk goroutines that were started and have not returned
InFlight == {i \in 1..Len(task) : task[i] \in {"ready", "put"}}

\* the images that have their place in one of the two lists
Settled == Len(failedFiles) + Len(uploadedFiles)

\* inside the loop every image before the one in hand is settled, chunk
\* tasks run only while the loop is in its upload step, and they are no
\* more than the upload URLs of the session of the image in hand (a panic
\* in a chunk task ends the process with the tasks it had)
OnePipeline ==
    /\ StepOf(upc) >= 1 => Settled = idx - 1
    /\ upc \notin {"dispatch", "wait", "crashed"} => InFlight = {}
    /\ InFlight # {} =>
          /\ session # Nil
          /\ Cardinality(InFlight) <= Len(session.UploadUrls)

\* the loop goes from an image to the next only: no task of the image runs
\* by then, and what is noted of chunks and of finalize calls is noted for
\* the image in hand
OneAfterAnother ==
    /\ idx' # idx =>
          /\ InFlight = {}
          /\ upc' = "image"
          /\ upc # "idle" => idx' = idx + 1
    /\ \A e \in chunkEnds' \ chunkEnds : e.image = idx
    /\ Len(completeCalls') > Len(completeCalls) =>
          completeCalls'[Len(completeCalls')].image = idx

NextTermination ==
    \/ UploadImages
    \/ LoopHead
    \/ \E ok \in BOOLEAN, len \in {1, MaxImageLen} : ProcessImage(ok, len, PngBody)
    \/ \E ok \in BOOLEAN : GetImageDimensions(ok, PngBody)
    \/ InitUploadImage
    \/ BeginAttempt
    \/ \E used \in {0, PayloadLen} : DoFailed("timeout", used)
    \/ \E s \in {StatusOK, StatusServiceUnavailable}, b \in UpBodies : DoResponded(s, b)
    \/ AsReturn
    \/ \E responses \in InitUploadResponses : InitUploadReturn(responses)
    \/ Spawn
    \/ Dispatched
    \/ \E i \in 1..MaxUrls : TaskStart(i)
    \/ \E i \in 1..MaxUrls, outcome \in {"error", "ok"} : TaskDone(i, outcome)
    \/ WaitReturns
    \/ \E breaks \in BOOLEAN : CompleteReturn(breaks)

InitTermination ==
    /\ InitUpload
    /\ imageUrls \in {<<HttpsUrl>>, <<FtpUrl, HttpUrl>>}

\* the steps of NextTermination are the returns of calls in flight and the
\* steps of goroutines that are ready to run; each step brings the loop, the
\* request or a task forward, so weak fairness of the whole is enough
SpecTermination ==
    InitTermination /\ [][NextTermination]_vars /\ WF_vars(NextTermination)

(***************************************************************************)
(* C38: termination.  Provided every network call returns in the end,      *)
(* UploadImages returns in the end with every input reference in the list  *)
(* of uploaded files or in the list of failed files, and doRequest returns *)
(* after at most maxRetries + 1 attempts; no chunk task is left running    *)
(* and the join does not block forever.                                    *)
(***************************************************************************)
\* UploadImages has returned, every reference is settled, no task runs
UploadDone ==
    /\ upc = "returned"
    /\ Settled = Len(imageUrls)
    /\ InFlight = {}

\* the attempts of a request are numbered 0 .. maxRetries
AttemptsBounded ==
    rpc \in {"inflight", "returned"} => attempt <= client.maxRetries

C38_Termination ==
    /\ <>UploadDone
    /\ [](upc = "wait" => <>(upc # "wait"))
    /\ [](rpc = "loop" => <>(rpc = "returned"))
    /\ []AttemptsBounded

\* what holds of the code: UploadImages returns as the claim has it, unless
\* the process was ended by the panic of a chunk task; doRequest returns
\* within its bound in every case
C38_TerminationOrCrash ==
    /\ <>(UploadDone \/ upc = "crashed")
    /\ [](rpc = "loop" => <>(rpc = "returned"))
    /\ []AttemptsBounded

\* the process was ended while the loop was waiting in the join: the image
\* in hand is in neither list, a task was still to run
C38_CrashedInJoin ==
    /\ upc = "crashed"
    /\ Settled < Len(imageUrls)
    /\ InFlight # {}
    /\ wg > 0

\* UploadImages returned with one reference in each list
C38_Returned ==
    /\ UploadDone
    /\ Len(imageUrls) = 2
    /\ Len(uploadedFiles) = 1
    /\ Len(failedFiles) = 1

(***************************************************************************)
(* Package tools: the handlers of generate_image, remix and upscaler.      *)
(* Each submits a task with GaiaApi.GenerateImages and turns the           *)
(* ImageGeneratedResponse into the result of the tool call.                *)
(***************************************************************************)
\* MaxWidth and MaxHeight of ProcessImageQuickForMCP
QuickBound == 512

\* res.Error is a *string: nil, or a pointer to a text that may be empty
ErrorTexts == {Nil, [text |-> ""], [text |-> "quota exceeded"]}

ImageRef == "https://cdn/out.png"

\* the ImageGeneratedResponse values the service may answer with
TaskResponses ==
    [Success : BOOLEAN, Images : {<<>>, <<ImageRef>>}, Error : ErrorTexts]

\* what GenerateImages returns: an error, or the decoded response
TaskOutcomes ==
    {[res |-> Nil, err |-> [kind |-> "APIError", text |-> "api error"]]} \cup
    {[res |-> r, err |-> Nil] : r \in TaskResponses}

\* how the GET of res.Images[0] ends for the handlers that fetch the image
ToolFetches == {FetchFailed} \cup {FetchedOk(b) : b \in ImageBodies}

NewToolResultError(text) ==
    [kind |-> "result", IsError |-> TRUE,
     content |-> <<[type |-> "text", text |-> text]>>]

NewToolResultText(text) ==
    [kind |-> "result", IsError |-> FALSE,
     content |-> <<[type |-> "text", text |-> text]>>]

NewToolResultImage(text, data, mimeType) ==
    [kind |-> "result", IsError |-> FALSE,
     content |-> <<[type |-> "text", text |-> text],
                   [type |-> "image", data |-> data, mimeType |-> mimeType]>>]

\* a run-time panic in the handler
Panics(what) == [kind |-> "panic", what |-> what]

ProcessImageQuickForMCP(outcome) ==
    ProcessImageFromURLForMCP([MaxWidth |-> QuickBound, MaxHeight |-> QuickBound],
                              outcome)

\* GenerateImageTool.Handler
GenerateImageHandler(answer) ==
    IF answer.err # Nil THEN NewToolResultError(answer.err.text)
    ELSE IF ~answer.res.Success
    THEN IF answer.res.Error = Nil THEN Panics("nil pointer dereference")
         ELSE NewToolResultError(answer.res.Error.text)
    ELSE IF Len(answer.res.Images) = 0 THEN Panics("index out of range")
    ELSE NewToolResultText(answer.res.Images[1])

\* the body RemixTool.Handler and UpscalerTool.Handler have in common
FetchingHandler(answer, fetch, done) ==
    IF answer.err # Nil THEN NewToolResultError(answer.err.text)
    ELSE IF ~answer.res.Success
    THEN IF answer.res.Error = Nil THEN Panics("nil pointer dereference")
         ELSE NewToolResultError(answer.res.Error.text)
    ELSE IF answer.res.Error # Nil THEN NewToolResultError(answer.res.Error.text)
    ELSE IF Len(answer.res.Images) = 0
    THEN NewToolResultError("No images were generated. Please try again.")
    ELSE LET got == ProcessImageQuickForMCP(fetch)
         IN  IF got.err # Nil THEN NewToolResultError("Failed to process image")
             ELSE NewToolResultImage(<<done, answer.res.Images[1]>>,
                                     got.base64Data, got.mimeType)

RemixHandler(answer, fetch) ==
    FetchingHandler(answer, fetch, "Remix generated successfully. Image url: ")

UpscalerHandler(answer, fetch) ==
    FetchingHandler(answer, fetch, "Upscaled successfully. Image url: ")

\* a tool call came in and GenerateImages returned `answer`
ToolCall(answer) == [pc |-> "idle", config |-> Nil, task |-> answer]

\* the handler of a tool returned, or ended in a panic
HandlerEnds(tool, fetch, result) ==
    img' = [pc |-> "returned", fn |-> tool, config |-> Nil, task |-> img.task,
            input |-> fetch, ret |-> result]

CallGenerateImageHandler ==
    /\ img.pc = "idle"
    /\ HandlerEnds("generate_image", Nil, GenerateImageHandler(img.task))
    /\ UNCHANGED <<client, ctx, reqVars, upVars>>

CallRemixHandler(fetch) ==
    /\ img.pc = "idle"
    /\ HandlerEnds("remix", fetch, RemixHandler(img.task, fetch))
    /\ UNCHANGED <<client, ctx, reqVars, upVars>>

CallUpscalerHandler(fetch) ==
    /\ img.pc = "idle"
    /\ HandlerEnds("upscaler", fetch, UpscalerHandler(img.task, fetch))
    /\ UNCHANGED <<client, ctx, reqVars, upVars>>

NextTools ==
    \/ CallGenerateImageHandler
    \/ \E fetch \in ToolFetches : CallRemixHandler(fetch)
    \/ \E fetch \in ToolFetches : CallUpscalerHandler(fetch)

InitTools ==
    /\ client = NewGaiaApi
    /\ call = Nil
    /\ InitReq
    /\ imageUrls = <<>>
    /\ InitUp
    /\ img \in {ToolCall(answer) : answer \in TaskOutcomes}

SpecTools == InitTools /\ [][NextTools]_vars

(***************************************************************************)
(* C39: tool outcome on remote failure.  When the task submission returns  *)
(* a response with success = false, the handler of generate_image, remix   *)
(* or upscaler returns an error result carrying a message, for every such  *)
(* response (with or without an error text, with or without images); and a *)
(* response with success = true and an empty image list never makes the    *)
(* handler fail by indexing the list.                                      *)
(***************************************************************************)
HandlerEnded == img.pc = "returned"

Answered == img.task.err = Nil

IsErrorResult(r) == r.kind = "result" /\ r.IsError

C39_ToolOutcomeOnFailure ==
    (HandlerEnded /\ Answered) =>
        /\ ~img.task.res.Success => IsErrorResult(img.ret)
        /\ (img.task.res.Success /\ img.task.res.Images = <<>>) =>
              img.ret.kind # "panic"

\* what holds of the code: a response with success = false that has an error
\* text gives an error result with that text; one without a text makes the
\* handler dereference nil.  A response with success = true and no image
\* gives an error result in remix and upscaler; generate_image indexes the
\* empty list.
C39_ToolOutcomeAsCoded ==
    (HandlerEnded /\ Answered) =>
        /\ ~img.task.res.Success =>
              IF img.task.res.Error = Nil
              THEN img.ret = Panics("nil pointer dereference")
              ELSE img.ret = NewToolResultError(img.task.res.Error.text)
        /\ (img.task.res.Success /\ img.task.res.Images = <<>>) =>
              IF img.fn = "generate_image"
              THEN img.ret = Panics("index out of range")
              ELSE IsErrorResult(img.ret)

\* success = false without an error text: the handler dereferenced nil
C39_NilErrorText ==
    /\ HandlerEnded
    /\ img.fn = "remix"
    /\ img.task.res = [Success |-> FALSE, Images |-> <<>>, Error |-> Nil]
    /\ img.ret.kind = "panic"

\* success = true without images: generate_image indexed the empty list
C39_EmptyListIndexed ==
    /\ HandlerEnded
    /\ img.fn = "generate_image"
    /\ img.task.res = [Success |-> TRUE, Images |-> <<>>, Error |-> Nil]
    /\ img.ret = Panics("index out of range")

(***************************************************************************)
(* C40: resizeImage never produces an image with a zero width or a zero    *)
(* height: for every source with positive dimensions and every positive    *)
(* bounds, both dimensions of the result are at least 1.                   *)
(***************************************************************************)
Resized == img.pc = "returned" /\ img.fn = "ResizeImage"

C40_NoZeroDimension ==
    Resized => img.ret.w >= 1 /\ img.ret.h >= 1

\* what holds of the code: the side that sets the scale comes out as its
\* bound; the other side is the truncated product, which is zero when the
\* source is more than MaxWidth (MaxHeight) times as wide (high) as it is
\* high (wide)
C40_ZeroWhenThin ==
    Resized =>
        LET src == img.input
            config == img.config
            fits == src.w <= config.MaxWidth /\ src.h <= config.MaxHeight
        IN  /\ img.ret.w >= 0 /\ img.ret.h >= 0
            /\ img.ret.w >= 1 \/ img.ret.h >= 1
            /\ img.ret.h = 0 <=> (~fits /\ src.w > config.MaxWidth * src.h)
            /\ img.ret.w = 0 <=> (~fits /\ src.h > config.MaxHeight * src.w)

\* a source of 3 x 1 under the bounds 2 x 2 came back as 2 x 0
C40_ZeroHeight ==
    /\ Resized
    /\ img.input = [w |-> 3, h |-> 1]
    /\ img.config = [MaxWidth |-> 2, MaxHeight |-> 2]
    /\ img.ret = [w |-> 2, h |-> 0]
====
